---- MODULE Spec2Model ----
(***************************************************************************)
(* A model of brease-next: the configuration resolver, the endpoint        *)
(* builders, the fetch executor (handleBreaseFetch), the public fetch      *)
(* functions, the static-generation helpers and the metadata generator.    *)
(*                                                                         *)
(* Strings are sequences of characters (one-character strings; a fixed     *)
(* literal of the source or an opaque identifier may be one token).        *)
(* JavaScript values are tagged records, so that truthiness, `||`, `??`    *)
(* and property access are computed as the language computes them.         *)
(***************************************************************************)
EXTENDS Integers, Sequences, FiniteSets, TLC

VARIABLES
    env,            \* process.env: variable name -> Undefined or Str(..)
    cachedConfig,   \* api.ts `let cachedConfig`: Null or a BreaseConfig
    call,           \* the last call of an exported function: its name and arguments
    ret,            \* how that call ended: Return(value) or Throw(error)
    http,           \* the HTTP exchanges of that call, in order
    envRead,        \* whether that call read process.env
    provider,       \* a running BreaseContext: where it stands, its requests in flight
    editButton      \* a BreaseEditButton in the document: its listener, the messages posted

vars == <<env, cachedConfig, call, ret, http, envRead, provider, editButton>>

----------------------------------------------------------------------------
(* JavaScript values *)

Undefined == [t |-> "undefined"]
Null == [t |-> "null"]
NaN == [t |-> "NaN"]
Str(s) == [t |-> "string", v |-> s]
Num(n) == [t |-> "number", v |-> n]
Bool(b) == [t |-> "boolean", v |-> b]
Obj(f) == [t |-> "object", f |-> f]
Arr(a) == [t |-> "array", a |-> a]
Error(name, message) == [t |-> "Error", name |-> name, message |-> message]

\* ToBoolean
Truthy(x) ==
    CASE x.t = "undefined" -> FALSE
      [] x.t = "null" -> FALSE
      [] x.t = "NaN" -> FALSE
      [] x.t = "string" -> x.v # <<>>
      [] x.t = "number" -> x.v # 0
      [] x.t = "boolean" -> x.v
      [] OTHER -> TRUE

\* a || b
Or(a, b) == IF Truthy(a) THEN a ELSE b

\* a ?? b
Nullish(a, b) == IF a.t \in {"undefined", "null"} THEN b ELSE a

\* how a call ends
Return(v) == [k |-> "return", v |-> v]
Throw(e) == [k |-> "throw", e |-> e]

\* o.key: a TypeError on undefined and null, undefined for a missing property
GetProp(o, key) ==
    IF o.t \in {"undefined", "null"}
    THEN Throw(Error("TypeError", <<"Cannot read properties of ", o.t, " (reading '", key, "')">>))
    ELSE IF o.t = "object" /\ key \in DOMAIN o.f THEN Return(o.f[key])
    ELSE Return(Undefined)

\* Array.prototype.join on a sequence of strings (each a sequence)
RECURSIVE Join(_, _)
Join(seq, sep) ==
    IF seq = <<>> THEN <<>>
    ELSE IF Len(seq) = 1 THEN seq[1]
    ELSE seq[1] \o sep \o Join(Tail(seq), sep)

\* sub occurs in s as a contiguous run
IsInfix(sub, s) ==
    \E i \in 0..(Len(s) - Len(sub)) : SubSeq(s, i + 1, i + Len(sub)) = sub

----------------------------------------------------------------------------
(* Configuration resolver *)

Digits == <<"0", "1", "2", "3", "4", "5", "6", "7", "8", "9">>
IsDigit(c) == \E i \in 1..10 : Digits[i] = c
DigitVal(c) == (CHOOSE i \in 1..10 : Digits[i] = c) - 1

RECURSIVE DigitsValue(_, _)
DigitsValue(s, acc) ==
    IF s = <<>> \/ ~IsDigit(Head(s)) THEN acc
    ELSE DigitsValue(Tail(s), acc * 10 + DigitVal(Head(s)))

RECURSIVE TrimStart(_)
TrimStart(s) == IF s # <<>> /\ Head(s) = " " THEN TrimStart(Tail(s)) ELSE s

\* parseInt(string): leading white space, an optional sign, then the longest
\* run of decimal digits; NaN when there is no digit
ParseInt(str) ==
    LET s == TrimStart(str)
        neg == s # <<>> /\ Head(s) = "-"
        body == IF s # <<>> /\ Head(s) \in {"-", "+"} THEN Tail(s) ELSE s
    IN IF body = <<>> \/ ~IsDigit(Head(body)) THEN NaN
       ELSE Num((IF neg THEN -1 ELSE 1) * DigitsValue(body, 0))

RequiredVars == <<"BREASE_BASE_URL", "BREASE_TOKEN", "BREASE_ENV", "BREASE_DEFAULT_LOCALE">>

\* mutant: stops at the first missing variable
MissingVars_FirstOnly(e) ==
    LET all == SelectSeq(RequiredVars, LAMBDA n : ~Truthy(e[n]))
    IN IF all = <<>> THEN <<>> ELSE <<all[1]>>

MissingVars(e) == SelectSeq(RequiredVars, LAMBDA n : ~Truthy(e[n]))

MissingMessage(missingVars) ==
    <<"Missing required Brease configuration. Please set the following environment variables: ">>
        \o Join([i \in 1..Len(missingVars) |-> <<missingVars[i]>>], <<", ">>)

validateBreaseConfig(e) ==
    LET revalidationTime == ParseInt(Or(e["BREASE_REVALIDATION_TIME"], Str(<<"3", "0">>)).v)
        missingVars == MissingVars(e)
    IN IF Len(missingVars) > 0
       THEN Throw(Error("Error", MissingMessage(missingVars)))
       ELSE Return([baseUrl |-> e["BREASE_BASE_URL"],
                    token |-> e["BREASE_TOKEN"],
                    env |-> e["BREASE_ENV"],
                    defaultLocale |-> e["BREASE_DEFAULT_LOCALE"],
                    revalidationTime |-> revalidationTime])

\* mutant: no memoization, the environment is validated on every call
getConfig_NoCache(cc, e) ==
    LET r == validateBreaseConfig(e)
    IN IF r.k = "throw"
       THEN [k |-> "throw", e |-> r.e, cached |-> cc, read |-> TRUE]
       ELSE [k |-> "return", v |-> r.v, cached |-> r.v, read |-> TRUE]

\* getConfig() when cachedConfig is cc and process.env is e: what it returns or
\* throws (k, v | e), cachedConfig afterwards (cached) and whether it read e
getConfig(cc, e) ==
    IF cc = Null
    THEN LET r == validateBreaseConfig(e)
         IN IF r.k = "throw"
            THEN [k |-> "throw", e |-> r.e, cached |-> cc, read |-> TRUE]
            ELSE [k |-> "return", v |-> r.v, cached |-> r.v, read |-> TRUE]
    ELSE [k |-> "return", v |-> cc, cached |-> cc, read |-> FALSE]

----------------------------------------------------------------------------
(* Endpoint builders.  In the source each of them calls getConfig(); every   *)
(* getConfig() of one exported call runs in the same synchronous stretch,    *)
(* where the first one decides (it throws, or it fills cachedConfig and the  *)
(* later ones return that value), so an exported call resolves the           *)
(* configuration once (Resolve, below) and the builders take the resolved    *)
(* configuration `c`.                                                        *)

ensureLeadingSlash(path) ==
    IF path = <<>> \/ Head(path) # "/" THEN <<"/">> \o path ELSE path

EnvPrefix(c) == c.baseUrl.v \o <<"/environments/">> \o c.env.v

getSiteUrl(c) == c.baseUrl.v

getPageUrl(c, pageSlug, locale, metaOnly) ==
    EnvPrefix(c) \o <<"/page", "?", "locale", "=">>
        \o Or(locale, c.defaultLocale).v
        \o <<"&", "slug", "=">> \o ensureLeadingSlash(pageSlug)
        \o (IF Truthy(metaOnly) THEN <<"&", "metaOnly", "=", "true">> ELSE <<>>)

getAlternateLinksUrl(c, pageSlug) ==
    EnvPrefix(c) \o <<"/page/alternate", "?", "slug", "=">> \o ensureLeadingSlash(pageSlug)

getNavigationUrl(c, navigationId, locale) ==
    EnvPrefix(c) \o <<"/navigations/">> \o navigationId \o <<"?", "locale", "=">> \o locale

getRedirectsUrl(c) == EnvPrefix(c) \o <<"/redirects">>

getLocalesUrl(c) == EnvPrefix(c) \o <<"/locales">>

getSitemapUrl(c) == EnvPrefix(c) \o <<"/sitemap">>

getAllPagesUrl(c, locale) == EnvPrefix(c) \o <<"/pages", "?", "locale", "=">> \o locale

getCollectionUrl(c, collectionId, locale) ==
    EnvPrefix(c) \o <<"/collections/">> \o collectionId \o <<"?", "locale", "=">> \o locale

getEntryUrl(c, collectionId, entryId, locale) ==
    EnvPrefix(c) \o <<"/collections/">> \o collectionId \o <<"/entries/">> \o entryId
        \o <<"?", "locale", "=">> \o locale

getFetchParams(c) ==
    [method |-> "GET",
     revalidate |-> c.revalidationTime,
     contentType |-> "application/json",
     authorization |-> <<"Bearer ">> \o c.token.v]

----------------------------------------------------------------------------
(* Fetch executor *)

\* What the transport does with a request:
\*   [k |-> "reject", e |-> thrown value]                    fetch() rejects
\*   [k |-> "response", status, statusText, body]            fetch() resolves
\* and body is [k |-> "invalid"] (response.json() rejects) or
\* [k |-> "json", json |-> value] (response.json() resolves with value).
Reject(x) == [k |-> "reject", e |-> x]
Response(status, statusText, body) ==
    [k |-> "response", status |-> status, statusText |-> statusText, body |-> body]
InvalidBody == [k |-> "invalid"]
JsonBody(j) == [k |-> "json", json |-> j]

\* mutant: a redirect status counts as ok
ResponseOk_Below400(r) == r.status >= 200 /\ r.status < 400

\* Response.ok
ResponseOk(r) == r.status >= 200 /\ r.status <= 299

\* response.json() on a body that is not JSON
JsonSyntaxError == Error("SyntaxError", <<"Unexpected end of JSON input">>)

\* The projection closures: (json) => json.data.<key>, for fetchAllPages with
\* `|| []`
Parser(key, orEmpty) == [key |-> key, orEmpty |-> orEmpty]

\* the closure of the first revision's fetchCollectionById:
\* (json) => json.data.collection.entries || []
EntriesParser == [key |-> "collection", orEmpty |-> TRUE, then |-> "entries"]

ApplyParser(parser, json) ==
    LET d == GetProp(json, "data")
    IN IF d.k = "throw" THEN d
       ELSE LET x == GetProp(d.v, parser.key)
            IN IF x.k = "throw" THEN x
               ELSE IF "then" \in DOMAIN parser
               THEN LET y == GetProp(x.v, parser.then)
                    IN IF y.k = "throw" THEN y ELSE Return(Or(y.v, Arr(<<>>)))
               ELSE IF parser.orEmpty THEN Return(Or(x.v, Arr(<<>>)))
               ELSE x

\* a variant of Success that reports 200 whatever the status of the response
Success_Always200(data, status) == [success |-> TRUE, data |-> data, status |-> 200]

Success(data, status) == [success |-> TRUE, data |-> data, status |-> status]

HttpFailure(endpoint, response) ==
    [success |-> FALSE,
     error |-> <<"Failed to fetch from ">> \o endpoint \o <<": ">> \o response.statusText,
     status |-> response.status,
     endpoint |-> endpoint]

\* mutant: the catch block forgets the status
CatchFailure_NoStatus(endpoint, error) ==
    [success |-> FALSE,
     error |-> <<"Request failed: ">>
                 \o (IF error.t = "Error" THEN error.message ELSE <<"Unknown error occurred">>),
     endpoint |-> endpoint]

\* mutant: the catch block reads .message of whatever was thrown
CatchFailure_NoInstanceCheck(endpoint, error) ==
    [success |-> FALSE,
     error |-> <<"Request failed: ">>
                 \o (IF error.t = "Error" THEN error.message ELSE <<"undefined">>),
     status |-> 500,
     endpoint |-> endpoint]

\* the catch block
CatchFailure(endpoint, error) ==
    [success |-> FALSE,
     error |-> <<"Request failed: ">>
                 \o (IF error.t = "Error" THEN error.message ELSE <<"Unknown error occurred">>),
     status |-> 500,
     endpoint |-> endpoint]

\* the value handleBreaseFetch returns
FetchResult(endpoint, parser, out) ==
    IF out.k = "reject" THEN CatchFailure(endpoint, out.e)
    ELSE IF ~ResponseOk(out) THEN HttpFailure(endpoint, out)
    ELSE IF out.body.k = "invalid" THEN CatchFailure(endpoint, JsonSyntaxError)
    ELSE LET data == ApplyParser(parser, out.body.json)
         IN IF data.k = "throw" THEN CatchFailure(endpoint, data.e)
            ELSE Success(data.v, out.status)

\* what it did on the way: the request, and whether response.json() and the
\* parser were called
FetchExchange(c, endpoint, out) ==
    [url |-> endpoint,
     init |-> getFetchParams(c),
     jsonCalled |-> out.k = "response" /\ ResponseOk(out),
     parserCalled |-> out.k = "response" /\ ResponseOk(out) /\ out.body.k = "json"]

\* a variant of handleBreaseFetch that repeats the request once when the first
\* attempt did not give a success
handleBreaseFetch_Retry(c, endpoint, parser, out) ==
    CHOOSE r \in {[ret |-> Return(FetchResult(ep, parser, out)),
                   http |-> IF FetchResult(ep, parser, out).success
                            THEN <<FetchExchange(c, ep, out)>>
                            ELSE <<FetchExchange(c, ep, out), FetchExchange(c, ep, out)>>] :
                    ep \in {endpoint}} : TRUE

\* handleBreaseFetch(endpoint, parser) when the transport answers `out`.
\* {F(x) : x \in {v}} evaluates v once and binds it to x.
handleBreaseFetch(c, endpoint, parser, out) ==
    CHOOSE r \in {[ret |-> Return(FetchResult(ep, parser, out)),
                   http |-> <<FetchExchange(c, ep, out)>>] : ep \in {endpoint}} : TRUE

----------------------------------------------------------------------------
(* Slug and locale *)

Lower == {"a", "b", "c", "d", "e", "f", "g", "h", "i", "j", "k", "l", "m",
          "n", "o", "p", "q", "r", "s", "t", "u", "v", "w", "x", "y", "z"}
Upper == {"A", "B", "C", "D", "E", "F", "G", "H", "I", "J", "K", "L", "M",
          "N", "O", "P", "Q", "R", "S", "T", "U", "V", "W", "X", "Y", "Z"}

\* /^[a-z]{2}(-[A-Z]{2})?$/.test(segment)
LocalePattern(segment) ==
    \/ /\ Len(segment) = 2
       /\ segment[1] \in Lower /\ segment[2] \in Lower
    \/ /\ Len(segment) = 5
       /\ segment[1] \in Lower /\ segment[2] \in Lower
       /\ segment[3] = "-"
       /\ segment[4] \in Upper /\ segment[5] \in Upper

\* String.prototype.split(sep) for a one-character separator
RECURSIVE SplitFrom(_, _, _)
SplitFrom(s, sep, cur) ==
    IF s = <<>> THEN <<cur>>
    ELSE IF Head(s) = sep THEN <<cur>> \o SplitFrom(Tail(s), sep, <<>>)
    ELSE SplitFrom(Tail(s), sep, Append(cur, Head(s)))

Split(s, sep) == SplitFrom(s, sep, <<>>)

\* a variant of FilterBoolean that keeps the empty strings
FilterBoolean_KeepEmpty(parts) == parts

\* .filter(Boolean) on an array of strings
FilterBoolean(parts) == SelectSeq(parts, LAMBDA part : part # <<>>)

\* mutant: the pattern alone, the default locale is not compared
isLocaleCode_PatternOnly(c, segment) == LocalePattern(segment)

isLocaleCode(c, segment) ==
    IF Str(segment) = c.defaultLocale THEN TRUE ELSE LocalePattern(segment)

\* slugParts is pageSlug.split("/").filter(Boolean)
SlugAndLocaleOf(c, slugParts) ==
    IF Len(slugParts) > 0 /\ isLocaleCode(c, slugParts[1])
    THEN [slug |-> Join(Tail(slugParts), <<"/">>), locale |-> Str(slugParts[1])]
    ELSE [slug |-> Join(slugParts, <<"/">>), locale |-> c.defaultLocale]

\* [slug |-> a string, locale |-> a JavaScript string]
parseSlugAndLocale(c, pageSlug) ==
    CHOOSE r \in {SlugAndLocaleOf(c, slugParts) :
                    slugParts \in {FilterBoolean(Split(pageSlug, "/"))}} : TRUE

----------------------------------------------------------------------------
(* Public fetch API: the value a call returns and its HTTP exchanges, under  *)
(* the resolved configuration c, when the transport answers `out`.           *)

fetchSite(c, out) == handleBreaseFetch(c, getSiteUrl(c), Parser("site", FALSE), out)

fetchPage(c, pageSlug, metaOnly, out) ==
    CHOOSE r \in {handleBreaseFetch(c, getPageUrl(c, p.slug, p.locale, metaOnly),
                                    Parser("page", FALSE), out) :
                    p \in {parseSlugAndLocale(c, pageSlug)}} : TRUE

fetchAlternateLinks(c, pageSlug, out) ==
    CHOOSE r \in {handleBreaseFetch(c, getAlternateLinksUrl(c, p.slug),
                                    Parser("alternateLinks", FALSE), out) :
                    p \in {parseSlugAndLocale(c, pageSlug)}} : TRUE

fetchAllPages(c, locale, out) ==
    handleBreaseFetch(c, getAllPagesUrl(c, locale), Parser("pages", TRUE), out)

fetchCollectionById(c, collectionId, locale, out) ==
    handleBreaseFetch(c, getCollectionUrl(c, collectionId, locale),
                      Parser("collection", FALSE), out)

fetchEntryById(c, collectionId, entryId, locale, out) ==
    handleBreaseFetch(c, getEntryUrl(c, collectionId, entryId, locale),
                      Parser("entry", FALSE), out)

fetchNavigation(c, navigationId, locale, out) ==
    handleBreaseFetch(c, getNavigationUrl(c, navigationId, locale),
                      Parser("navigation", FALSE), out)

fetchRedirects(c, out) ==
    handleBreaseFetch(c, getRedirectsUrl(c), Parser("redirects", FALSE), out)

fetchLocales(c, out) == handleBreaseFetch(c, getLocalesUrl(c), Parser("locales", FALSE), out)

generateSitemap(c, out) ==
    handleBreaseFetch(c, getSitemapUrl(c), Parser("urlset", FALSE), out)

----------------------------------------------------------------------------
(* Static-generation helpers *)

\* for (const x of v): the elements of v, or a TypeError when v is not iterable
IterOf(v) ==
    IF v.t = "array" THEN Return(v.a)
    ELSE IF v.t = "string" THEN Return([i \in 1..Len(v.v) |-> Str(<<v.v[i]>>)])
    ELSE Throw(Error("TypeError", <<v.t, " is not iterable">>))

RECURSIVE TrimLeadingSlashes(_)
TrimLeadingSlashes(s) ==
    IF s # <<>> /\ Head(s) = "/" THEN TrimLeadingSlashes(Tail(s)) ELSE s

RECURSIVE TrimTrailingSlashes(_)
TrimTrailingSlashes(s) ==
    IF s # <<>> /\ s[Len(s)] = "/" THEN TrimTrailingSlashes(SubSeq(s, 1, Len(s) - 1)) ELSE s

\* .replace(/^\/+|\/+$/g, "")
TrimSlashes(s) == TrimTrailingSlashes(TrimLeadingSlashes(s))

\* (page.slug ?? "").replace(..).split("/").filter(Boolean), as an array
slugSegments(page) ==
    LET parts == FilterBoolean(Split(TrimSlashes(Nullish(GetProp(page, "slug").v,
                                                          Str(<<>>)).v), "/"))
    IN Arr([i \in 1..Len(parts) |-> Str(parts[i])])

\* mutant: the root page, whose slug has no segment, gets no record
PageParams_DropRoot(code, pages) ==
    LET kept == SelectSeq(pages, LAMBDA page : slugSegments(page) # Arr(<<>>))
    IN [j \in 1..Len(kept) |-> Obj([locale |-> code, slug |-> slugSegments(kept[j])])]

\* the inner loop: one record per page of the locale whose code is `code`
PageParams(code, pages) ==
    [j \in 1..Len(pages) |-> Obj([locale |-> code, slug |-> slugSegments(pages[j])])]

\* mutant: a locale whose pages fetch failed is skipped and the loop goes on
RECURSIVE LocaleLoop_SkipFailed(_, _, _, _, _)
LocaleLoop_SkipFailed(c, locales, outs, allParams, log) ==
    IF locales = <<>> THEN [ret |-> Return(Arr(allParams)), http |-> log]
    ELSE CHOOSE r \in {
            IF ~p.ret.v.success
            THEN LocaleLoop_SkipFailed(c, Tail(locales), outs, allParams, log \o p.http)
            ELSE IF IterOf(p.ret.v.data).k = "throw"
            THEN [ret |-> IterOf(p.ret.v.data), http |-> log \o p.http]
            ELSE LocaleLoop_SkipFailed(c, Tail(locales), outs,
                            allParams \o PageParams(Head(locales).f.code, p.ret.v.data.a),
                            log \o p.http) :
            p \in {fetchAllPages(c, Head(locales).f.code.v,
                                 outs.pages[Head(locales).f.code.v])}} : TRUE

\* the outer loop over the locales still to visit; outs.pages[code] is the
\* transport's answer to the pages request of the locale `code`
RECURSIVE LocaleLoop(_, _, _, _, _)
LocaleLoop(c, locales, outs, allParams, log) ==
    IF locales = <<>> THEN [ret |-> Return(Arr(allParams)), http |-> log]
    ELSE CHOOSE r \in {
            IF ~p.ret.v.success
            THEN [ret |-> Return(Arr(<<>>)), http |-> log \o p.http]
            ELSE IF IterOf(p.ret.v.data).k = "throw"
            THEN [ret |-> IterOf(p.ret.v.data), http |-> log \o p.http]
            ELSE LocaleLoop(c, Tail(locales), outs,
                            allParams \o PageParams(Head(locales).f.code, p.ret.v.data.a),
                            log \o p.http) :
            p \in {fetchAllPages(c, Head(locales).f.code.v,
                                 outs.pages[Head(locales).f.code.v])}} : TRUE

\* outs.locales is the transport's answer to the locales request
generateBreasePageParams(c, outs) ==
    CHOOSE r \in {
        IF ~l.ret.v.success
        THEN [ret |-> Return(Arr(<<>>)), http |-> l.http]
        ELSE IF IterOf(l.ret.v.data).k = "throw"
        THEN [ret |-> IterOf(l.ret.v.data), http |-> l.http]
        ELSE LocaleLoop(c, l.ret.v.data.a, outs, <<>>, l.http) :
        l \in {fetchLocales(c, outs.locales)}} : TRUE

\* An earlier revision of the API: collections are fetched with locale=en and
\* generateBreaseCollectionParams derives the static params of the entries.
fetchCollectionById_en(c, collectionId, out) ==
    handleBreaseFetch(c, EnvPrefix(c) \o <<"/collections/">> \o collectionId
                            \o <<"?", "locale", "=", "e", "n">>,
                      Parser("collection", FALSE), out)

\* .replace(/^\//, "")
StripLeadingSlash(s) == IF s # <<>> /\ Head(s) = "/" THEN Tail(s) ELSE s

\* entries.filter(e => e.slug && e.slug !== "/").map(e => ({slug: ...}))
EntryParams(entries) ==
    IF entries.t \in {"undefined", "null"}
    THEN Throw(Error("TypeError", <<"Cannot read properties of ", entries.t,
                                    " (reading 'filter')">>))
    ELSE IF entries.t # "array"
    THEN Throw(Error("TypeError", <<"filter is not a function">>))
    ELSE LET kept == SelectSeq(entries.a,
                        LAMBDA en : /\ Truthy(GetProp(en, "slug").v)
                                    /\ GetProp(en, "slug").v # Str(<<"/">>))
         IN Return(Arr([i \in 1..Len(kept) |->
                Obj([slug |-> Str(StripLeadingSlash(GetProp(kept[i], "slug").v.v))])]))

\* result.data of a Result, undefined on a failure
DataOf(result) == IF "data" \in DOMAIN result THEN result.data ELSE Undefined

\* result.data.entries.filter(..).map(..)
CollectionParamsOf(result) ==
    LET entries == GetProp(DataOf(result), "entries")
    IN IF entries.k = "throw" THEN entries ELSE EntryParams(entries.v)

\* mutant: the result is used without looking at result.success
generateBreaseCollectionParams_NoCheck(c, collectionId, out) ==
    CHOOSE r \in {[ret |-> CollectionParamsOf(f.ret.v), http |-> f.http] :
                    f \in {fetchCollectionById_en(c, collectionId, out)}} : TRUE

generateBreaseCollectionParams(c, collectionId, out) ==
    CHOOSE r \in {[ret |-> IF ~f.ret.v.success THEN Return(Arr(<<>>))
                           ELSE CollectionParamsOf(f.ret.v),
                   http |-> f.http] :
                    f \in {fetchCollectionById_en(c, collectionId, out)}} : TRUE

\* The first revision: the configuration is a module constant built from the
\* environment without validation, and fetchCollectionById returns the entries.
config_part005(e) ==
    [baseUrl |-> Or(e["BREASE_BASE_URL"], Str(<<>>)),
     token |-> Or(e["BREASE_TOKEN"], Str(<<>>)),
     env |-> Or(e["BREASE_ENV"], Str(<<>>)),
     revalidationTime |-> ParseInt(Or(e["BREASE_REVALIDATION_TIME"], Str(<<"3", "0">>)).v)]

fetchCollectionById_part005(c, collectionId, out) ==
    handleBreaseFetch(c, EnvPrefix(c) \o <<"/collections/">> \o collectionId
                            \o <<"?", "locale", "=", "e", "n">>,
                      EntriesParser, out)

generateBreaseCollectionParams_part005(c, collectionId, out) ==
    CHOOSE r \in {[ret |-> IF ~f.ret.v.success THEN Return(Arr(<<>>))
                           ELSE EntryParams(DataOf(f.ret.v)),
                   http |-> f.http] :
                    f \in {fetchCollectionById_part005(c, collectionId, out)}} : TRUE

----------------------------------------------------------------------------
(* Metadata generator *)

\* o?.key
OptProp(o, key) == IF o.t \in {"undefined", "null"} THEN Undefined ELSE GetProp(o, key).v

\* a property of an object literal that is assigned only under a condition
FieldIf(cond, key, value) == IF cond THEN key :> value ELSE <<>>

\* mutant: robots is always set, from the flag
RobotsOf_FromFlag(page) ==
    "robots" :> Obj([index |-> GetProp(page, "indexing").v,
                     follow |-> GetProp(page, "indexing").v])

\* if (!page.indexing) metadata.robots = {index: false, follow: false}
RobotsOf(page) ==
    FieldIf(~Truthy(GetProp(page, "indexing").v), "robots",
            Obj([index |-> Bool(FALSE), follow |-> Bool(FALSE)]))

\* page?.openGraph?.image ? [{url: page?.openGraph?.image}] : undefined
ImagesOf(page) ==
    LET image == OptProp(OptProp(page, "openGraph"), "image")
    IN IF Truthy(image) THEN Arr(<<Obj([url |-> image])>>) ELSE Undefined

openGraphOf(page) ==
    LET og == OptProp(page, "openGraph")
    IN Obj([title |-> Or(Or(Or(OptProp(og, "title"), OptProp(page, "metaTitle")),
                            OptProp(page, "name")), Undefined),
            description |-> Or(Or(OptProp(og, "description"),
                                  OptProp(page, "metaDescription")), Undefined),
            type |-> Or(OptProp(og, "type"), Str(<<"website">>)),
            url |-> Or(OptProp(og, "url"), Undefined),
            images |-> ImagesOf(page)])

\* a variant of twitterOf whose title and description have no fallback
twitterOf_NoFallback(page) ==
    LET tw == OptProp(page, "twitterCard")
    IN Obj([creator |-> Or(OptProp(tw, "creator"), Undefined),
            site |-> Or(OptProp(tw, "site"), Undefined),
            card |-> OptProp(tw, "type"),
            title |-> Or(OptProp(tw, "title"), Undefined),
            images |-> ImagesOf(page),
            description |-> Or(OptProp(tw, "description"), Undefined)])

twitterOf(page) ==
    LET tw == OptProp(page, "twitterCard")
    IN Obj([creator |-> Or(OptProp(tw, "creator"), Undefined),
            site |-> Or(OptProp(tw, "site"), Undefined),
            card |-> OptProp(tw, "type"),
            title |-> Or(Or(Or(OptProp(tw, "title"), OptProp(page, "metaTitle")),
                            OptProp(page, "name")), Undefined),
            images |-> ImagesOf(page),
            description |-> Or(Or(OptProp(tw, "description"),
                                  OptProp(page, "metaDescription")), Undefined)])

\* the metadata of a page; the first property access throws on a page that is
\* null or undefined
generateBreasePageMetadata(page) ==
    IF GetProp(page, "metaTitle").k = "throw" THEN GetProp(page, "metaTitle")
    ELSE Return(Obj(
            ("title" :> Or(Or(GetProp(page, "metaTitle").v, GetProp(page, "name").v),
                           Undefined))
            @@ FieldIf(Truthy(GetProp(page, "metaDescription").v), "description",
                       GetProp(page, "metaDescription").v)
            @@ FieldIf(Truthy(GetProp(page, "canonicalUrl").v), "alternates",
                       Obj([canonical |-> GetProp(page, "canonicalUrl").v]))
            @@ RobotsOf(page)
            @@ ("openGraph" :> openGraphOf(page))
            @@ ("twitter" :> twitterOf(page))))

----------------------------------------------------------------------------
(* Inputs *)

c_en == <<"e", "n">>
c_de == <<"d", "e">>
c_fr == <<"f", "r">>
c_enUS == <<"e", "n", "-", "U", "S">>
c_about == <<"a", "b", "o", "u", "t">>

EnvNames == {"BREASE_BASE_URL", "BREASE_TOKEN", "BREASE_ENV", "BREASE_DEFAULT_LOCALE",
             "BREASE_REVALIDATION_TIME"}

\* an environment with every variable set
EnvA == [n \in EnvNames |->
            CASE n = "BREASE_BASE_URL" -> Str(<<"https://cms.a">>)
              [] n = "BREASE_TOKEN" -> Str(<<"token-a">>)
              [] n = "BREASE_ENV" -> Str(<<"env-a">>)
              [] n = "BREASE_DEFAULT_LOCALE" -> Str(c_en)
              [] n = "BREASE_REVALIDATION_TIME" -> Str(<<"6", "0">>)]

\* the transport's answers to a request whose parser reads json.data[key]
Thrown_NetworkError == Error("TypeError", <<"fetch failed">>)
Thrown_NotAnError == Str(<<"aborted">>)

Statuses == {<<200, <<"OK">>>>, <<299, <<>>>>, <<300, <<"Multiple Choices">>>>,
             <<404, <<"Not Found">>>>, <<500, <<"Internal Server Error">>>>}

Payloads == {Str(<<"content">>), Null}

Bodies(key) ==
    {InvalidBody, JsonBody(Null), JsonBody(Obj(<<>>)), JsonBody(Obj([data |-> Obj(<<>>)]))}
        \cup {JsonBody(Obj([data |-> Obj(key :> p)])) : p \in Payloads}

Outcomes(key) ==
    {Reject(Thrown_NetworkError), Reject(Thrown_NotAnError)}
        \cup {Response(st[1], st[2], b) : st \in Statuses, b \in Bodies(key)}

\* one answer: 200 with a well-formed body
OkOutcome(key) ==
    {Response(200, <<"OK">>, JsonBody(Obj([data |-> Obj(key :> Str(<<"content">>))])))}

ParserKeys == {"site", "page", "alternateLinks", "pages", "collection", "entry",
               "navigation", "redirects", "locales", "urlset"}

\* per parser key, the answers a specification lets the transport give
AllOutcomes == [key \in ParserKeys |-> Outcomes(key)]
OkOutcomes == [key \in ParserKeys |-> OkOutcome(key)]

PageSlugs == {c_en \o <<"/">> \o c_about, c_about, <<"/">>}
MetaOnlys == {Undefined, Bool(TRUE)}
LocaleArgs == {c_en}
Ids == {<<"id-1">>}

----------------------------------------------------------------------------
(* Calls of the exported functions *)

NoCall == [fn |-> "none", args |-> <<>>, out |-> Undefined]
NoRet == [k |-> "none"]

\* no BreaseContext is running
NoProvider == [pc |-> "none"]

\* no BreaseEditButton was rendered
NoEditButton ==
    [mounted |-> FALSE, id |-> Undefined, listener |-> Undefined, effectPending |-> FALSE,
     scrollY |-> 0, posted |-> <<>>, clicks |-> 0]

Call(fn, args, out) == [fn |-> fn, args |-> args, out |-> out]

\* the first getConfig() of a call
Resolve == {getConfig(cachedConfig, env)}

\* a variant of Resolved that turns the error of getConfig() into a failure Result
Resolved_FailureResult(g, r) ==
    IF g.k = "throw"
    THEN [ret |-> Return(CatchFailure(<<>>, g.e)), http |-> <<>>]
    ELSE r

\* a call whose getConfig() threw throws that error and makes no request;
\* otherwise it ends as `r`, which is evaluated under the resolved g.v
Resolved(g, r) == IF g.k = "throw" THEN [ret |-> Throw(g.e), http |-> <<>>] ELSE r

\* the call `c` ran and ended as r = [ret, http]
Do(c, g, r) ==
    /\ call' = c
    /\ ret' = r.ret
    /\ cachedConfig' = g.cached
    /\ http' = r.http
    /\ envRead' = g.read
    /\ UNCHANGED <<env, provider, editButton>>

FetchSite(outs) ==
    \E out \in outs["site"], g \in Resolve :
        \E r \in {Resolved(g, fetchSite(g.v, out))} :
            Do(Call("fetchSite", <<>>, out), g, r)

FetchPage(outs) ==
    \E pageSlug \in PageSlugs, metaOnly \in MetaOnlys, out \in outs["page"], g \in Resolve :
        \E r \in {Resolved(g, fetchPage(g.v, pageSlug, metaOnly, out))} :
            Do(Call("fetchPage", <<Str(pageSlug), metaOnly>>, out), g, r)

FetchAlternateLinks(outs) ==
    \E pageSlug \in PageSlugs, out \in outs["alternateLinks"], g \in Resolve :
        \E r \in {Resolved(g, fetchAlternateLinks(g.v, pageSlug, out))} :
            Do(Call("fetchAlternateLinks", <<Str(pageSlug)>>, out), g, r)

FetchAllPages(outs) ==
    \E locale \in LocaleArgs, out \in outs["pages"], g \in Resolve :
        \E r \in {Resolved(g, fetchAllPages(g.v, locale, out))} :
            Do(Call("fetchAllPages", <<Str(locale)>>, out), g, r)

FetchCollectionById(outs) ==
    \E id \in Ids, locale \in LocaleArgs, out \in outs["collection"], g \in Resolve :
        \E r \in {Resolved(g, fetchCollectionById(g.v, id, locale, out))} :
            Do(Call("fetchCollectionById", <<Str(id), Str(locale)>>, out), g, r)

FetchEntryById(outs) ==
    \E id \in Ids, entryId \in Ids, locale \in LocaleArgs, out \in outs["entry"],
       g \in Resolve :
        \E r \in {Resolved(g, fetchEntryById(g.v, id, entryId, locale, out))} :
            Do(Call("fetchEntryById", <<Str(id), Str(entryId), Str(locale)>>, out), g, r)

FetchNavigation(outs) ==
    \E id \in Ids, locale \in LocaleArgs, out \in outs["navigation"], g \in Resolve :
        \E r \in {Resolved(g, fetchNavigation(g.v, id, locale, out))} :
            Do(Call("fetchNavigation", <<Str(id), Str(locale)>>, out), g, r)

FetchRedirects(outs) ==
    \E out \in outs["redirects"], g \in Resolve :
        \E r \in {Resolved(g, fetchRedirects(g.v, out))} :
            Do(Call("fetchRedirects", <<>>, out), g, r)

FetchLocales(outs) ==
    \E out \in outs["locales"], g \in Resolve :
        \E r \in {Resolved(g, fetchLocales(g.v, out))} :
            Do(Call("fetchLocales", <<>>, out), g, r)

GenerateSitemap(outs) ==
    \E out \in outs["urlset"], g \in Resolve :
        \E r \in {Resolved(g, generateSitemap(g.v, out))} :
            Do(Call("generateSitemap", <<>>, out), g, r)

\* validateBreaseConfig is exported too; it reads the environment and leaves
\* cachedConfig alone
ValidateBreaseConfig ==
    /\ call' = Call("validateBreaseConfig", <<>>, Undefined)
    /\ ret' = validateBreaseConfig(env)
    /\ http' = <<>>
    /\ envRead' = TRUE
    /\ UNCHANGED <<env, cachedConfig, provider, editButton>>

\* the host changes an environment variable
SetEnv(values) ==
    \E n \in EnvNames : \E x \in values[n] :
        /\ env' = [env EXCEPT ![n] = x]
        /\ UNCHANGED <<cachedConfig, call, ret, http, envRead, provider, editButton>>

----------------------------------------------------------------------------
(* Spec: the public fetch API against every answer of the transport *)

\* no call made yet
Fresh ==
    /\ cachedConfig = Null
    /\ call = NoCall
    /\ ret = NoRet
    /\ http = <<>>
    /\ envRead = FALSE
    /\ provider = NoProvider
    /\ editButton = NoEditButton

Init == env = EnvA /\ Fresh

Next ==
    \/ FetchSite(AllOutcomes)
    \/ FetchPage(AllOutcomes)
    \/ FetchAlternateLinks(AllOutcomes)
    \/ FetchAllPages(AllOutcomes)
    \/ FetchCollectionById(AllOutcomes)
    \/ FetchEntryById(AllOutcomes)
    \/ FetchNavigation(AllOutcomes)
    \/ FetchRedirects(AllOutcomes)
    \/ FetchLocales(AllOutcomes)
    \/ GenerateSitemap(AllOutcomes)

Spec == Init /\ [][Next]_vars

----------------------------------------------------------------------------
(* SpecValidate: validateBreaseConfig over every environment *)

c_60 == <<"6", "0">>

\* each required variable unset, empty or set; the revalidation time unset,
\* empty, a number, not a number, a number followed by text, zero
ValidateEnvValues(n) ==
    IF n = "BREASE_REVALIDATION_TIME"
    THEN {Undefined, Str(<<>>), Str(c_60), Str(<<"a", "b", "c">>),
          Str(<<"1", "5", "s">>), Str(<<"0">>)}
    ELSE {Undefined, Str(<<>>), EnvA[n]}

InitValidate ==
    /\ env \in {e \in [EnvNames -> UNION {ValidateEnvValues(n) : n \in EnvNames}] :
                    \A n \in EnvNames : e[n] \in ValidateEnvValues(n)}
    /\ Fresh

NextValidate == ValidateBreaseConfig

SpecValidate == InitValidate /\ [][NextValidate]_vars

----------------------------------------------------------------------------
(* SpecConfig: calls of the exported functions interleaved with changes of   *)
(* the environment                                                           *)

EnvB == [n \in EnvNames |->
            CASE n = "BREASE_BASE_URL" -> Str(<<"https://cms.b">>)
              [] n = "BREASE_TOKEN" -> Str(<<"token-b">>)
              [] n = "BREASE_ENV" -> Str(<<"env-b">>)
              [] n = "BREASE_DEFAULT_LOCALE" -> Str(c_de)
              [] n = "BREASE_REVALIDATION_TIME" -> Str(<<"1", "5">>)]

ConfigEnvValues(n) ==
    CASE n = "BREASE_BASE_URL" -> {Undefined, EnvA[n]}
      [] n = "BREASE_TOKEN" -> {Str(<<>>), EnvA[n], EnvB[n]}
      [] n = "BREASE_ENV" -> {Undefined, EnvA[n]}
      [] n = "BREASE_DEFAULT_LOCALE" -> {Str(<<>>), EnvA[n], EnvB[n]}
      [] n = "BREASE_REVALIDATION_TIME" -> {Undefined, EnvA[n]}

InitConfig ==
    /\ env \in {EnvA, [EnvA EXCEPT !["BREASE_BASE_URL"] = Undefined]}
    /\ Fresh

NextConfig ==
    \/ SetEnv([n \in EnvNames |-> ConfigEnvValues(n)])
    \/ ValidateBreaseConfig
    \/ FetchSite(OkOutcomes)
    \/ FetchPage(OkOutcomes)
    \/ FetchAlternateLinks(OkOutcomes)
    \/ FetchAllPages(OkOutcomes)
    \/ FetchCollectionById(OkOutcomes)
    \/ FetchEntryById(OkOutcomes)
    \/ FetchNavigation(OkOutcomes)
    \/ FetchRedirects(OkOutcomes)
    \/ FetchLocales(OkOutcomes)
    \/ GenerateSitemap(OkOutcomes)

SpecConfig == InitConfig /\ [][NextConfig]_vars

----------------------------------------------------------------------------
(* SpecSlug: fetchPage over combined slugs.  A call is pending in the initial *)
(* state (its arguments and the transport's answer are drawn there) and one   *)
(* step runs it to completion.                                                *)

MaxSegs == 2
MaxSlashes == 1

c_qa == <<"q", "a">>
c_eng == <<"e", "n", "g">>
c_En == <<"E", "n">>
c_en_us == <<"e", "n", "-", "u", "s">>

\* path segments: locale-like ones and page names
Segments == {c_en, c_de, c_enUS, c_qa, c_about, c_eng, c_En, c_en_us}

DefaultLocales == {c_en, c_eng}

SeqsUpTo(S, n) == UNION {[1..k -> S] : k \in 0..n}

\* a combined slug: `lead` slashes, then the segments joined by "/"
SlugInputs == [lead : 0..MaxSlashes, segs : SeqsUpTo(Segments, MaxSegs)]

SlugText(s) == [i \in 1..s.lead |-> "/"] \o Join(s.segs, <<"/">>)

\* a call that has been made and has not returned
Pending(fn) == ret = NoRet /\ call.fn = fn

InitSlug ==
    /\ env \in {[EnvA EXCEPT !["BREASE_DEFAULT_LOCALE"] = Str(d)] : d \in DefaultLocales}
    /\ cachedConfig = Null
    /\ call \in {Call("fetchPage", <<Str(SlugText(s)), m>>, out) :
                    s \in SlugInputs, m \in MetaOnlys, out \in OkOutcome("page")}
    /\ ret = NoRet
    /\ http = <<>>
    /\ envRead = FALSE
    /\ provider = NoProvider
    /\ editButton = NoEditButton

RunFetchPage ==
    /\ Pending("fetchPage")
    /\ \E g \in Resolve :
        \E r \in {Resolved(g, fetchPage(g.v, call.args[1].v, call.args[2], call.out))} :
            Do(call, g, r)

NextSlug == RunFetchPage

SpecSlug == InitSlug /\ [][NextSlug]_vars

----------------------------------------------------------------------------
(* SpecParams: the static-generation helpers.  A call is pending in the       *)
(* initial state, with the answers the transport will give to its requests.   *)

MaxLocales == 2
MaxPages == 2
MaxEntries == 2

LocaleCodes == {c_en, c_fr}

c_blog_post == <<"/", "/", "b", "l", "o", "g", "/", "/", "p", "o", "s", "t", "/">>

\* the slug of a page of the pages list: null, empty, the root, one segment,
\* two segments with redundant slashes
SlugValues == {Null, Str(<<>>), Str(<<"/">>), Str(<<"/">> \o c_about), Str(c_blog_post)}
SlugValuesFr == {Str(<<"/">>), Str(<<"/">> \o c_about)}

EntrySlugValues == {Null, Str(<<"/">>), Str(<<"/">> \o c_about), Str(c_about)}

\* the arrays of {field: x} objects of at most n elements, x drawn from S
ObjectLists(field, S, n) ==
    {[i \in DOMAIN l |-> Obj(field :> l[i])] : l \in SeqsUpTo(S, n)}

\* 200 with the body {data: payload}
DataAnswer(payload) == Response(200, <<"OK">>, JsonBody(Obj([data |-> payload])))

\* answers that make handleBreaseFetch return a failure: a rejected fetch, a
\* non-2xx status, a body that does not decode, a body on which the parser throws
FailedAnswers ==
    {Reject(Thrown_NetworkError),
     Response(404, <<"Not Found">>, JsonBody(Obj(<<>>))),
     Response(200, <<"OK">>, InvalidBody),
     Response(200, <<"OK">>, JsonBody(Null))}

\* answers to the locales request: a list of locales, no list, a failure
LocalesAnswers ==
    {DataAnswer(Obj([locales |-> Arr(l)])) :
        l \in ObjectLists("code", {Str(code) : code \in LocaleCodes}, MaxLocales)}
        \cup {DataAnswer(Obj(<<>>))} \cup FailedAnswers

\* answers to a pages request: a list of pages, no list, a failure
PagesAnswers(slugs) ==
    {DataAnswer(Obj([pages |-> Arr(l)])) : l \in ObjectLists("slug", slugs, MaxPages)}
        \cup {DataAnswer(Obj(<<>>))} \cup FailedAnswers

\* answers to a collection request: a collection with entries, one without,
\* no collection, a failure
CollectionAnswers ==
    {DataAnswer(Obj([collection |-> Obj([entries |-> Arr(l)])])) :
        l \in ObjectLists("slug", EntrySlugValues, MaxEntries)}
        \cup {DataAnswer(Obj([collection |-> Obj(<<>>)])), DataAnswer(Obj(<<>>))}
        \cup FailedAnswers

ParamsCalls ==
    {Call("generateBreasePageParams", <<>>,
          [locales |-> l, pages |-> (c_en :> pe @@ c_fr :> pf)]) :
        l \in LocalesAnswers, pe \in PagesAnswers(SlugValues),
        pf \in PagesAnswers(SlugValuesFr)}
    \cup {Call(fn, <<Str(id)>>, out) :
            fn \in {"generateBreaseCollectionParams",
                    "generateBreaseCollectionParams_part005"},
            id \in Ids, out \in CollectionAnswers}

InitParams ==
    /\ env = EnvA
    /\ cachedConfig = Null
    /\ call \in ParamsCalls
    /\ ret = NoRet
    /\ http = <<>>
    /\ envRead = FALSE
    /\ provider = NoProvider
    /\ editButton = NoEditButton

RunGenerateBreasePageParams ==
    /\ Pending("generateBreasePageParams")
    /\ \E g \in Resolve :
        \E r \in {Resolved(g, generateBreasePageParams(g.v, call.out))} :
            Do(call, g, r)

RunGenerateBreaseCollectionParams ==
    /\ Pending("generateBreaseCollectionParams")
    /\ \E g \in Resolve :
        \E r \in {Resolved(g, generateBreaseCollectionParams(g.v, call.args[1].v, call.out))} :
            Do(call, g, r)

\* the first revision has no getConfig and no cachedConfig
RunGenerateBreaseCollectionParams_part005 ==
    /\ Pending("generateBreaseCollectionParams_part005")
    /\ \E r \in {generateBreaseCollectionParams_part005(config_part005(env),
                                                        call.args[1].v, call.out)} :
        /\ ret' = r.ret
        /\ http' = r.http
    /\ UNCHANGED <<env, cachedConfig, call, envRead, provider, editButton>>

NextParams ==
    \/ RunGenerateBreasePageParams
    \/ RunGenerateBreaseCollectionParams
    \/ RunGenerateBreaseCollectionParams_part005

SpecParams == InitParams /\ [][NextParams]_vars

----------------------------------------------------------------------------
(* SpecMeta: generateBreasePageMetadata over pages of the declared type       *)

OpenGraphs ==
    {Obj([url |-> Null, type |-> Null, image |-> Null, title |-> Null, description |-> Null]),
     Obj([url |-> Str(<<"https://site/og">>), type |-> Str(<<"article">>),
          image |-> Str(<<"https://site/og.png">>), title |-> Str(<<"OG title">>),
          description |-> Str(<<"OG description">>)]),
     Obj([url |-> Null, type |-> Null, image |-> Null, title |-> Str(<<>>),
          description |-> Str(<<>>)])}

TwitterCards ==
    {Obj([site |-> Null, type |-> Null, image |-> Null, title |-> Null, creator |-> Null,
          description |-> Null]),
     Obj([site |-> Str(<<"@site">>), type |-> Str(<<"summary">>),
          image |-> Str(<<"https://site/tw.png">>), title |-> Str(<<"Twitter title">>),
          creator |-> Str(<<"@creator">>), description |-> Str(<<"Twitter description">>)]),
     Obj([site |-> Null, type |-> Null, image |-> Null, title |-> Str(<<>>), creator |-> Null,
          description |-> Str(<<>>)])}

\* the fields of BreasePage that the generator reads
Pages ==
    {Obj([name |-> name, metaTitle |-> metaTitle, metaDescription |-> metaDescription,
          canonicalUrl |-> canonicalUrl, indexing |-> indexing, openGraph |-> og,
          twitterCard |-> tw]) :
        name \in {Null, Str(<<>>), Str(<<"Home">>)},
        metaTitle \in {Null, Str(<<>>), Str(<<"Meta title">>)},
        metaDescription \in {Null, Str(<<>>), Str(<<"Meta description">>)},
        canonicalUrl \in {Null, Str(<<"https://site/home">>)},
        indexing \in {Bool(TRUE), Bool(FALSE)},
        og \in OpenGraphs,
        tw \in TwitterCards}

\* what a caller holds as the page when fetchPage gave a failure: the data of
\* a Result that has none
AbsentPages ==
    {DataOf(failure) : failure \in {HttpFailure(<<"/page">>, Response(404, <<"Not Found">>,
                                                                     InvalidBody)),
                                   CatchFailure(<<"/page">>, Thrown_NetworkError)}}

InitMeta ==
    /\ env = EnvA
    /\ cachedConfig = Null
    /\ call \in {Call("generateBreasePageMetadata", <<page>>, Undefined) :
                    page \in Pages \cup AbsentPages}
    /\ ret = NoRet
    /\ http = <<>>
    /\ envRead = FALSE
    /\ provider = NoProvider
    /\ editButton = NoEditButton

\* the generator takes the page and makes no request
RunGenerateBreasePageMetadata ==
    /\ Pending("generateBreasePageMetadata")
    /\ ret' = generateBreasePageMetadata(call.args[1])
    /\ UNCHANGED <<env, cachedConfig, call, http, envRead, provider, editButton>>

NextMeta == RunGenerateBreasePageMetadata

SpecMeta == InitMeta /\ [][NextMeta]_vars

----------------------------------------------------------------------------
(* Rendering components *)

\* a function value (a component, or a built-in of the language)
Fn(name) == [t |-> "function", name |-> name]

\* React.createElement(type, props, ...children)
createElement(type, props, children) ==
    [t |-> "element", type |-> type, props |-> props, children |-> children]

\* the properties every plain object inherits from Object.prototype
ObjectPrototype ==
    {<<"constructor">>, <<"toString">>, <<"valueOf">>, <<"hasOwnProperty">>,
     <<"isPrototypeOf">>, <<"propertyIsEnumerable">>, <<"toLocaleString">>,
     <<"__proto__">>}

\* componentMap[key] on a plain object: an own property, else an inherited one,
\* else undefined
Lookup(componentMap, key) ==
    IF key \in DOMAIN componentMap.f THEN componentMap.f[key]
    ELSE IF key \in ObjectPrototype THEN Fn(key)
    ELSE Undefined

filterSections(page, componentMap) ==
    [i \in DOMAIN page.f.sections.a |->
        CHOOSE kept \in
            {IF Truthy(Lookup(componentMap, section.f.type.v))
             THEN Obj([component |-> Lookup(componentMap, section.f.type.v),
                       page_section_uuid |-> section.f.page_section_uuid,
                       section_uuid |-> section.f.uuid,
                       name |-> section.f.name,
                       data |-> section.f.elements])
             ELSE Null : section \in {page.f.sections.a[i]}} : TRUE]

\* typeof window !== 'undefined' && window.self !== window.top, where window
\* is "none" on the server, "top" in a top-level frame and "framed" in an iframe
isInIframe(window) == window # "none" /\ window = "framed"

SectionComponent(section, optionalData) ==
    createElement(section.f.component,
                  [data |-> section.f.data, extra |-> Or(optionalData, Null)], <<>>)

SectionProps(section, index) ==
    [key |-> index, id |-> section.f.page_section_uuid, className |-> "brease-section"]

\* the array BreasePage returns: an element per kept section, undefined where
\* the callback returns nothing
BreasePage(page, sectionMap, optionalData, window) ==
    Return(Arr([i \in DOMAIN page.f.sections.a |->
        CHOOSE node \in
            {IF Truthy(section)
             THEN IF isInIframe(window)
                  THEN createElement("section", SectionProps(section, i - 1),
                           <<createElement(Fn(<<"SectionToolbar">>), [data |-> section], <<>>),
                             createElement("div", [className |-> "brease-preview-overlay"], <<>>),
                             SectionComponent(section, optionalData)>>)
                  ELSE createElement("section", SectionProps(section, i - 1),
                           <<SectionComponent(section, optionalData)>>)
             ELSE Undefined : section \in {filterSections(page, sectionMap)[i]}} : TRUE]))

\* what React renders of a returned array: undefined, null and booleans
\* produce no output
RenderedChildren(nodes) ==
    SelectSeq(nodes, LAMBDA node : node.t \notin {"undefined", "null", "boolean"})

VARIANT_ORDER ==
    <<(<<"sm">>), (<<"md">>), (<<"lg">>), (<<"xl">>), (<<"2xl">>), (<<"hd">>), (<<"original">>)>>

\* the decimal digits of a natural number, as `${n}` writes them
RECURSIVE NumberToString(_)
NumberToString(n) ==
    IF n < 10 THEN <<Digits[n + 1]>> ELSE NumberToString(n \div 10) \o <<Digits[(n % 10) + 1]>>

\* `${v.path} ${v.width}w` of the variants in VARIANT_ORDER that have a path,
\* joined by ', '
buildSrcSetFromVariants(variants) ==
    LET keys == SelectSeq(VARIANT_ORDER,
                          LAMBDA key : Truthy(OptProp(Lookup(variants, key), "path")))
    IN Str(Join([i \in DOMAIN keys |->
                    Lookup(variants, keys[i]).f.path.v \o <<" ">>
                        \o NumberToString(Lookup(variants, keys[i]).f.width.v) \o <<"w">>],
                <<", ">>))

DEFAULT_SIZES ==
    Str(<<"(max-width: 640px) 100vw, (max-width: 1024px) 50vw, (max-width: 1440px) 33vw, 25vw">>)

\* breaseImage.variants && Object.keys(breaseImage.variants).length > 0
hasVariants(breaseImage) ==
    Truthy(GetProp(breaseImage, "variants").v) /\ DOMAIN breaseImage.f.variants.f # {}

\* the variants under the size tags of VARIANT_ORDER, in that order
variantList(breaseImage) ==
    IF hasVariants(breaseImage)
    THEN LET keys == SelectSeq(VARIANT_ORDER,
                               LAMBDA key : Truthy(Lookup(breaseImage.f.variants, key)))
         IN [i \in DOMAIN keys |-> Lookup(breaseImage.f.variants, keys[i])]
    ELSE <<>>

\* variantList.reduce((a, b) => (a.width >= b.width ? a : b)), from the left
RECURSIVE Reduce(_, _)
Reduce(a, rest) ==
    IF rest = <<>> THEN a
    ELSE Reduce(IF a.f.width.v >= Head(rest).f.width.v THEN a ELSE Head(rest), Tail(rest))

\* a variant of maxVariant that takes the first variant of the list
maxVariant_First(list) == IF Len(list) > 0 THEN list[1] ELSE Null

maxVariant(list) == IF Len(list) > 0 THEN Reduce(list[1], Tail(list)) ELSE Null

\* (variant && hasVariants && breaseImage.variants[variant]?.path) || breaseImage.path
ImageSrc(breaseImage, variant) ==
    IF Truthy(variant) /\ hasVariants(breaseImage)
    THEN Or(OptProp(Lookup(breaseImage.f.variants, variant.v), "path"), breaseImage.f.path)
    ELSE breaseImage.f.path

\* a variant of ResponsiveProps that spreads the props whether or not a
\* variant is requested
ResponsiveProps_AnyVariant(breaseImage, props) ==
    IF hasVariants(breaseImage)
    THEN [srcSet |-> buildSrcSetFromVariants(breaseImage.f.variants),
          sizes |-> Nullish(props.sizes, DEFAULT_SIZES),
          unoptimized |-> Bool(TRUE)]
    ELSE <<>>

\* the props that are spread only for a responsive source set
ResponsiveProps(breaseImage, props) ==
    IF ~Truthy(props.variant) /\ hasVariants(breaseImage)
    THEN [srcSet |-> buildSrcSetFromVariants(breaseImage.f.variants),
          sizes |-> Nullish(props.sizes, DEFAULT_SIZES),
          unoptimized |-> Bool(TRUE)]
    ELSE <<>>

\* props holds width, height, alt, variant, sizes and className of the call
BreaseImage(breaseImage, props) ==
    IF ~Truthy(breaseImage) THEN Return(Null)
    ELSE \* each chosen once: the greatest variant of the list
        LET max == maxVariant(variantList(breaseImage))
        IN Return(createElement(Fn(<<"Image">>),
               [src |-> ImageSrc(breaseImage, props.variant),
                alt |-> Nullish(Nullish(Nullish(props.alt, breaseImage.f.alt),
                                        breaseImage.f.name), Str(<<"Image alt.">>)),
                width |-> Nullish(Nullish(Nullish(props.width, OptProp(max, "width")),
                                          breaseImage.f.width), Num(128)),
                height |-> Nullish(Nullish(Nullish(props.height, OptProp(max, "height")),
                                           breaseImage.f.height), Num(128)),
                className |-> props.className]
               @@ ResponsiveProps(breaseImage, props), <<>>))

\* linkData.target === '_blank' ? '_blank' : undefined
LinkTarget(linkData) ==
    IF linkData.f.target = Str(<<"_blank">>) THEN Str(<<"_blank">>) ELSE Undefined

\* rest holds the other attributes of the call, spread last
BreaseLink(linkData, children, rest) ==
    IF Truthy(linkData.f.isExternal)
    THEN Return(createElement("a",
             rest @@ [title |-> linkData.f.label,
                      href |-> linkData.f.value,
                      target |-> LinkTarget(linkData),
                      rel |-> IF LinkTarget(linkData) = Str(<<"_blank">>)
                              THEN Str(<<"noopener noreferrer">>) ELSE Undefined],
             <<children>>))
    ELSE Return(createElement(Fn(<<"Link">>),
             rest @@ [href |-> linkData.f.value,
                      title |-> linkData.f.label,
                      target |-> LinkTarget(linkData)],
             <<children>>))

\* React.useContext(context) at a place of the tree: `scope` holds the values of
\* the enclosing providers of that context, the innermost last; without one
\* the default value given to createContext
useContext(context, scope) == IF scope = <<>> THEN context.default ELSE scope[Len(scope)]

\* hooks.tsx, first revision: createContext({navigations: {}, collections: {}})
DataContext == [default |-> Obj([navigations |-> Obj(<<>>), collections |-> Obj(<<>>)])]

\* hooks.tsx, second revision: createContext(undefined)
DataContext_undefined == [default |-> Undefined]

\* hooks.tsx, first revision; index.ts exports it as useBrease
useBrease(scope) ==
    IF useContext(DataContext, scope) = Undefined
    THEN Throw(Error("Error", <<"useBrease must be used within a BreaseContext">>))
    ELSE Return(useContext(DataContext, scope))

\* hooks.tsx, second revision; client.ts exports it as useBrease
useBreaseContext(scope) ==
    IF useContext(DataContext_undefined, scope) = Undefined
    THEN Throw(Error("Error", <<"useBreaseContext must be used within a BreaseContext">>))
    ELSE Return(useContext(DataContext_undefined, scope))

----------------------------------------------------------------------------
(* SpecRender: the rendering components over their props.  A call is pending  *)
(* in the initial state and one step runs it; call.out holds the window the   *)
(* component runs in.                                                         *)

MaxSections == 2

SectionTypes == {<<"hero">>, <<"text">>, <<"constructor">>}

\* the i-th section of a page, of the given type
Section(i, type) ==
    Obj([type |-> Str(type),
         page_section_uuid |-> Str(<<"ps-">> \o [j \in 1..i |-> "i"]),
         uuid |-> Str(<<"s-">> \o type),
         name |-> Str(type),
         elements |-> Obj([title |-> Str(<<"Title of ">> \o type)])])

RenderPages ==
    {Obj([sections |-> Arr([i \in DOMAIN types |-> Section(i, types[i])])]) :
        types \in UNION {[1..n -> SectionTypes] : n \in 0..MaxSections}}

\* section maps of the declared type: a component for each type they name
SectionMaps ==
    {Obj([type \in types |-> Fn(<<"Component ">> \o type)]) :
        types \in SUBSET {<<"hero">>, <<"text">>}}

Windows == {"none", "top", "framed"}

OptionalDatas == {Undefined, Obj([theme |-> Str(<<"dark">>)])}

\* a variant of a media object, under the given key
ImageVariant(key, width) ==
    Obj([path |-> Str(<<"/media/photo-">> \o key), width |-> Num(width),
         height |-> Num(width \div 2)])

VariantKeys == {<<"sm">>, <<"lg">>, <<"thumb">>}

VariantWidths == {100, 800}

\* a variant whose file is missing: it has dimensions and no path
PathlessVariant(width) ==
    Obj([path |-> Null, width |-> Num(width), height |-> Num(width \div 2)])

\* the variant lg may be one without a path
VariantMaps ==
    UNION {{Obj([key \in keys |-> IF key \in pathless THEN PathlessVariant(widths[key])
                                  ELSE ImageVariant(key, widths[key])]) :
                widths \in [keys -> VariantWidths],
                pathless \in SUBSET (keys \cap {<<"lg">>})} : keys \in SUBSET VariantKeys}

Medias ==
    {Obj([path |-> Str(<<"/media/photo">>), width |-> Num(640), height |-> Num(480),
          alt |-> Null, name |-> Str(<<"photo">>), variants |-> variants]) :
        variants \in VariantMaps \cup {Null}}

ImageProps ==
    [width : {Undefined, Num(320)}, height : {Undefined, Num(200)}, alt : {Undefined},
     variant : {Undefined, Str(<<"sm">>), Str(<<"lg">>), Str(<<"md">>)},
     sizes : {Undefined}, className : {Undefined}]

ImageCalls ==
    {Call("BreaseImage", <<breaseImage, props>>, "none") :
        breaseImage \in Medias \cup {Null}, props \in ImageProps}

LinkDatas ==
    {Obj([label |-> Str(<<"Read more">>), isExternal |-> isExternal, value |-> value,
          target |-> target]) :
        isExternal \in {Bool(TRUE), Bool(FALSE)},
        value \in {Str(<<"/about">>), Str(<<"https://other.example/">>)},
        target \in {Str(<<"_blank">>), Str(<<"self">>), Null}}

LinkCalls ==
    {Call("BreaseLink", <<linkData, Str(<<"Read more">>), rest>>, "none") :
        linkData \in LinkDatas, rest \in {<<>>, [className |-> Str(<<"button">>)]}}

\* the bundles of the providers around a component that calls the accessor
Bundles ==
    {Obj([navigations |-> Obj(<<>>), collections |-> Obj(<<>>), locale |-> Str(locale)]) :
        locale \in {c_en, c_fr}}

HookCalls ==
    {Call(fn, <<Arr(scope)>>, "none") : fn \in {"useBrease", "useBreaseContext"},
                                        scope \in SeqsUpTo(Bundles, 2)}

PageCalls ==
    {Call("BreasePage", <<page, sectionMap, optionalData>>, window) :
        page \in RenderPages, sectionMap \in SectionMaps,
        optionalData \in OptionalDatas, window \in Windows}

InitRender ==
    /\ env = EnvA
    /\ cachedConfig = Null
    /\ call \in PageCalls \cup ImageCalls \cup LinkCalls \cup HookCalls
    /\ ret = NoRet
    /\ http = <<>>
    /\ envRead = FALSE
    /\ provider = NoProvider
    /\ editButton = NoEditButton

RunBreasePage ==
    /\ Pending("BreasePage")
    /\ ret' = BreasePage(call.args[1], call.args[2], call.args[3], call.out)
    /\ UNCHANGED <<env, cachedConfig, call, http, envRead, provider, editButton>>

RunBreaseImage ==
    /\ Pending("BreaseImage")
    /\ ret' = BreaseImage(call.args[1], call.args[2])
    /\ UNCHANGED <<env, cachedConfig, call, http, envRead, provider, editButton>>

RunBreaseLink ==
    /\ Pending("BreaseLink")
    /\ ret' = BreaseLink(call.args[1], call.args[2], call.args[3])
    /\ UNCHANGED <<env, cachedConfig, call, http, envRead, provider, editButton>>

\* call.args[1] holds the scope of the calling component
RunUseBrease ==
    /\ Pending("useBrease")
    /\ ret' = useBrease(call.args[1].a)
    /\ UNCHANGED <<env, cachedConfig, call, http, envRead, provider, editButton>>

RunUseBreaseContext ==
    /\ Pending("useBreaseContext")
    /\ ret' = useBreaseContext(call.args[1].a)
    /\ UNCHANGED <<env, cachedConfig, call, http, envRead, provider, editButton>>

NextRender ==
    \/ RunBreasePage
    \/ RunBreaseImage
    \/ RunBreaseLink
    \/ RunUseBrease
    \/ RunUseBreaseContext

SpecRender == InitRender /\ [][NextRender]_vars

----------------------------------------------------------------------------
(* Context provider (BreaseContext).  A request is named by its kind and its  *)
(* position in the configured list; provider.pending holds the requests in    *)
(* flight and provider.results the Result of each completed one.              *)

LocalesRequest == <<"locales", 0>>

\* config.navigations or config.collections as a sequence, empty when absent
ConfigList(config, kind) == IF Truthy(config.f[kind]) THEN config.f[kind].a ELSE <<>>

\* the requests that config.<kind>.map(async ...) issues, all in one stretch
Requests(config, kind) == {<<kind, i>> : i \in DOMAIN ConfigList(config, kind)}

\* what the transport will answer to a request
AnswerTo(request, answers) ==
    IF request = LocalesRequest THEN answers.locales ELSE answers[request[1]][request[2]]

\* the fetch function behind a request, under the answer `out`
FetchOf(c, config, locale, request, out) ==
    IF request = LocalesRequest THEN fetchLocales(c, out)
    ELSE IF request[1] = "navigations"
    THEN fetchNavigation(c, config.f.navigations.a[request[2]].f.id.v, locale.v, out)
    ELSE fetchCollectionById(c, config.f.collections.a[request[2]].f.id.v, locale.v, out)

\* localesResult.data.forEach(locale => availableLocales.push(locale.code)),
\* nothing pushed on a failure
availableLocales(localesResult) ==
    IF ~localesResult.success THEN Return(Arr(<<>>))
    ELSE IF localesResult.data.t \in {"undefined", "null"}
    THEN GetProp(localesResult.data, "forEach")
    ELSE IF localesResult.data.t # "array"
    THEN Throw(Error("TypeError", <<"localesResult.data.forEach is not a function">>))
    ELSE Return(Arr([i \in DOMAIN localesResult.data.a |->
                        GetProp(localesResult.data.a[i], "code").v]))

\* the positions of the list whose Result is a success
Succeeded(config, kind, results) ==
    {i \in DOMAIN ConfigList(config, kind) : results[<<kind, i>>].success}

\* a variant of KeyedData that gives up every key when one fetch failed
KeyedData_FailFast(config, kind, results) ==
    IF Succeeded(config, kind, results) # DOMAIN ConfigList(config, kind) THEN Obj(<<>>)
    ELSE Obj([key \in {ConfigList(config, kind)[i].f.key.v :
                            i \in Succeeded(config, kind, results)} |->
                results[<<kind, CHOOSE i \in Succeeded(config, kind, results) :
                                    ConfigList(config, kind)[i].f.key.v = key>>].data])

\* a variant of KeyedData in which a key holds the data of the first successful
\* fetch under it
KeyedData_FirstWins(config, kind, results) ==
    Obj([key \in {ConfigList(config, kind)[i].f.key.v :
                        i \in Succeeded(config, kind, results)} |->
            results[<<kind, CHOOSE i \in Succeeded(config, kind, results) :
                        /\ ConfigList(config, kind)[i].f.key.v = key
                        /\ \A j \in Succeeded(config, kind, results) :
                            ConfigList(config, kind)[j].f.key.v = key => i <= j>>].data])

\* results.forEach(({key, result}) => { if (result.success) map[key] = result.data }):
\* a key holds the data of the last successful fetch under it
KeyedData(config, kind, results) ==
    Obj([key \in {ConfigList(config, kind)[i].f.key.v :
                        i \in Succeeded(config, kind, results)} |->
            results[<<kind, CHOOSE i \in Succeeded(config, kind, results) :
                        /\ ConfigList(config, kind)[i].f.key.v = key
                        /\ \A j \in Succeeded(config, kind, results) :
                            ConfigList(config, kind)[j].f.key.v = key => j <= i>>].data])

\* <BreaseClientProvider brease={breaseData}>{children}</BreaseClientProvider>
ProviderElement(navigations, locales, collections, locale, config, children) ==
    createElement(Fn(<<"BreaseClientProvider">>),
                  [brease |-> Obj([navigations |-> navigations,
                                   availableLocales |-> locales,
                                   collections |-> collections,
                                   locale |-> locale,
                                   userParams |-> config.f.userParams])],
                  <<children>>)

\* BreaseContext up to its first await: fetchLocales() resolves the
\* configuration and issues its request
StartBreaseContext ==
    /\ ret = NoRet
    /\ call.fn = "BreaseContext"
    /\ provider.pc = "start"
    /\ \E g \in Resolve :
        /\ cachedConfig' = g.cached
        /\ envRead' = g.read
        /\ IF g.k = "throw"
           THEN /\ ret' = Throw(g.e)
                /\ provider' = [provider EXCEPT !.pc = "done"]
           ELSE /\ ret' = ret
                /\ provider' = [provider EXCEPT !.pc = "locales",
                                                !.pending = {LocalesRequest}]
    /\ UNCHANGED <<env, call, http, editButton>>

\* the transport answers a request in flight and its fetch function returns
CompleteRequest ==
    /\ provider.pc # "none"
    /\ \E request \in provider.pending :
        \E f \in {FetchOf(cachedConfig, call.args[1], call.args[2], request,
                          AnswerTo(request, call.out))} :
            /\ provider' = [provider EXCEPT !.pending = @ \ {request},
                                            !.results = (request :> f.ret.v) @@ @]
            /\ http' = http \o f.http
    /\ UNCHANGED <<env, cachedConfig, call, ret, envRead, editButton>>

\* lines 47-61: after `await fetchLocales()`, the locale codes are collected
\* and every navigation request is issued
ResumeAfterLocales ==
    /\ provider.pc = "locales"
    /\ LocalesRequest \in DOMAIN provider.results
    /\ \E codes \in {availableLocales(provider.results[LocalesRequest])} :
        IF codes.k = "throw"
        THEN /\ ret' = codes
             /\ provider' = [provider EXCEPT !.pc = "done"]
        ELSE /\ ret' = ret
             /\ provider' = [provider EXCEPT
                                !.pc = "navigations",
                                !.availableLocales = codes.v,
                                !.pending = Requests(call.args[1], "navigations")]
    /\ UNCHANGED <<env, cachedConfig, call, http, envRead, editButton>>

\* lines 63-78 and 99-107: after the Promise.all of the navigations, the
\* navigations are collected; then every collection request is issued, or,
\* without config.collections, the provider is returned
ResumeAfterNavigations ==
    /\ provider.pc = "navigations"
    /\ Requests(call.args[1], "navigations") \subseteq DOMAIN provider.results
    /\ \E navigations \in {KeyedData(call.args[1], "navigations", provider.results)} :
        IF Truthy(call.args[1].f.collections)
        THEN /\ ret' = ret
             /\ provider' = [provider EXCEPT
                                !.pc = "collections",
                                !.navigations = navigations,
                                !.pending = Requests(call.args[1], "collections")]
        ELSE /\ ret' = Return(ProviderElement(navigations, provider.availableLocales,
                                              Undefined, call.args[2], call.args[1],
                                              call.args[3]))
             /\ provider' = [provider EXCEPT !.pc = "done", !.navigations = navigations]
    /\ UNCHANGED <<env, cachedConfig, call, http, envRead, editButton>>

\* lines 80-97: after the Promise.all of the collections, the collections are
\* collected and the provider is returned
ResumeAfterCollections ==
    /\ provider.pc = "collections"
    /\ Requests(call.args[1], "collections") \subseteq DOMAIN provider.results
    /\ ret' = Return(ProviderElement(provider.navigations, provider.availableLocales,
                                     KeyedData(call.args[1], "collections", provider.results),
                                     call.args[2], call.args[1], call.args[3]))
    /\ provider' = [provider EXCEPT !.pc = "done"]
    /\ UNCHANGED <<env, cachedConfig, call, http, envRead, editButton>>

----------------------------------------------------------------------------
(* SpecContext: one BreaseContext over every configuration and every answer   *)
(* of the transport, its requests completing in any order                     *)

MaxNavigations == 2
MaxCollections == 2

\* the entry of a configured list at position i
ConfigEntry(key, prefix, i) ==
    Obj([key |-> Str(key), id |-> Str(prefix \o [j \in 1..i |-> "i"])])

\* an entry of the configuration with the answer to its request
ConfigChoices(keys, answers, n) == SeqsUpTo(keys \X answers, n)

OkAnswer(field, i) ==
    DataAnswer(Obj(field :> Obj([title |-> Str(<<field, "-">> \o [j \in 1..i |-> "i"])])))

ContextLocalesAnswers ==
    {DataAnswer(Obj([locales |-> Arr(<<Obj([code |-> Str(c_en)]), Obj([code |-> Str(c_fr)])>>)])),
     DataAnswer(Obj(<<>>)),
     Response(500, <<"Internal Server Error">>, InvalidBody)}

\* configured says whether the configuration has a collections list at all
ContextChoices ==
    {x \in [locales : ContextLocalesAnswers,
            navs : ConfigChoices({<<"header">>, <<"footer">>}, BOOLEAN, MaxNavigations),
            cols : ConfigChoices({<<"posts">>}, BOOLEAN, MaxCollections),
            configured : BOOLEAN] : x.configured \/ x.cols = <<>>}

ContextCalls ==
    {Call("BreaseContext",
          <<Obj([navigations |-> Arr([i \in DOMAIN x.navs |->
                                        ConfigEntry(x.navs[i][1], <<"nav-">>, i)]),
                 collections |-> IF x.configured
                                 THEN Arr([i \in DOMAIN x.cols |->
                                            ConfigEntry(x.cols[i][1], <<"col-">>, i)])
                                 ELSE Undefined,
                 userParams |-> Obj([theme |-> Str(<<"dark">>)])]),
            Str(c_en), Str(<<"children">>)>>,
          [locales |-> x.locales,
           navigations |-> [i \in DOMAIN x.navs |->
                              IF x.navs[i][2] THEN OkAnswer("navigation", i)
                              ELSE Response(404, <<"Not Found">>, JsonBody(Obj(<<>>)))],
           collections |-> [i \in DOMAIN x.cols |->
                              IF x.cols[i][2] THEN OkAnswer("collection", i)
                              ELSE Reject(Thrown_NetworkError)]]) :
        x \in ContextChoices}

InitContext ==
    /\ env = EnvA
    /\ cachedConfig = Null
    /\ call \in ContextCalls
    /\ ret = NoRet
    /\ http = <<>>
    /\ envRead = FALSE
    /\ provider = [pc |-> "start", pending |-> {}, results |-> <<>>,
                   availableLocales |-> Arr(<<>>), navigations |-> Obj(<<>>)]
    /\ editButton = NoEditButton

NextContext ==
    \/ StartBreaseContext
    \/ CompleteRequest
    \/ ResumeAfterLocales
    \/ ResumeAfterNavigations
    \/ ResumeAfterCollections

SpecContext == InitContext /\ [][NextContext]_vars

----------------------------------------------------------------------------
(* SpecUrl: getPageUrl over slugs and locales of any characters *)

MaxSlugLen == 2

\* the characters a slug is made of here
SlugChars == {"a", "/", "&", "=", "#", "?", " "}

UrlCalls ==
    {Call("getPageUrl", <<Str(pageSlug), Str(locale), metaOnly>>, Undefined) :
        pageSlug \in SeqsUpTo(SlugChars, MaxSlugLen), locale \in {c_en, c_enUS},
        metaOnly \in MetaOnlys}

InitUrl ==
    /\ env = EnvA
    /\ cachedConfig = Null
    /\ call \in UrlCalls
    /\ ret = NoRet
    /\ http = <<>>
    /\ envRead = FALSE
    /\ provider = NoProvider
    /\ editButton = NoEditButton

\* getPageUrl resolves the configuration and returns the URL
RunGetPageUrl ==
    /\ Pending("getPageUrl")
    /\ \E g \in Resolve :
        \E r \in {Resolved(g, [ret |-> Return(Str(getPageUrl(g.v, call.args[1].v, call.args[2],
                                                             call.args[3]))),
                               http |-> <<>>])} :
            Do(call, g, r)

NextUrl == RunGetPageUrl

SpecUrl == InitUrl /\ [][NextUrl]_vars

----------------------------------------------------------------------------
(* SpecAttempt: the public fetch API against every answer of the transport,   *)
(* under a complete environment, another complete one and one without a base  *)
(* URL                                                                        *)

InitAttempt ==
    /\ env \in {EnvA, EnvB, [EnvA EXCEPT !["BREASE_BASE_URL"] = Undefined]}
    /\ Fresh

SpecAttempt == InitAttempt /\ [][Next]_vars

----------------------------------------------------------------------------
(* Section toolbar (section-toolbar.tsx).  A BreaseEditButton in the document *)
(* is followed through its renders, its passive effects and the clicks on it  *)

\* window.parent.postMessage({action, data: {...data, scrollY: window.scrollY}}, '*')
\* when there is a window; every window has a parent, the top one itself.  The
\* value is the messages posted.
BreaseAction(action, data, window, scrollY) ==
    IF window # "none"
    THEN <<Obj([action |-> action,
                data |-> Obj([scrollY |-> Num(scrollY)] @@ data.f)])>>
    ELSE <<>>

\* the listener that the effect of a render with this id registers
handleClick(id, window, scrollY) ==
    BreaseAction(Str(<<"BreaseEditSection">>), Obj([uuid |-> id]), window, scrollY)

\* React runs the pending passive effects: the cleanup of the last effect takes
\* its listener off the button, and the effect of the last render, when the
\* button is still mounted, registers a listener that holds the id of that render
flushPassiveEffects(button) ==
    IF button.effectPending
    THEN [button EXCEPT !.listener = IF button.mounted THEN button.id ELSE Undefined,
                        !.effectPending = FALSE]
    ELSE button

\* the ids of the sections that BreasePage gave a toolbar
ToolbarIds(nodes) ==
    {nodes[n].children[1].props.data.f.page_section_uuid :
        n \in {k \in DOMAIN nodes :
                /\ nodes[k].t = "element"
                /\ Len(nodes[k].children) > 1
                /\ nodes[k].children[1].type = Fn(<<"SectionToolbar">>)}}

----------------------------------------------------------------------------
(* SpecEdit: a page is rendered, and the edit button of one of its sections   *)
(* is mounted, rendered again, clicked and unmounted while the window scrolls *)

MaxClicks == 2

MaxScrollY == 1

\* the ids a later render of the page may pass to the button
SectionIds ==
    {Section(i, type).f.page_section_uuid : i \in 1..MaxSections, type \in SectionTypes}

InitEdit ==
    /\ env = EnvA
    /\ cachedConfig = Null
    /\ call \in {c \in PageCalls :
                    /\ c.args[3] = Undefined
                    /\ DOMAIN c.args[2].f = {<<"hero">>, <<"text">>}}
    /\ ret = NoRet
    /\ http = <<>>
    /\ envRead = FALSE
    /\ provider = NoProvider
    /\ editButton = NoEditButton

\* the first render of the button of a section that has a toolbar: the button
\* is put in the document and its effect is left pending
MountEditButton ==
    /\ call.fn = "BreasePage"
    /\ ret # NoRet
    /\ ~editButton.mounted
    /\ \E id \in ToolbarIds(ret.v.a) :
        editButton' = [flushPassiveEffects(editButton) EXCEPT
                          !.mounted = TRUE, !.id = id, !.effectPending = TRUE]
    /\ UNCHANGED <<env, cachedConfig, call, ret, http, envRead, provider>>

\* a later render of the mounted button: React first runs the effects that
\* are pending, and leaves the effect of this render pending when the id,
\* its only dependency, has changed
RenderEditButton ==
    /\ editButton.mounted
    /\ \E id \in SectionIds :
        \E button \in {flushPassiveEffects(editButton)} :
            editButton' = [button EXCEPT !.id = id,
                                         !.effectPending = (id # button.id)]
    /\ UNCHANGED <<env, cachedConfig, call, ret, http, envRead, provider>>

\* the button is taken out of the document; the cleanup of its effect is left
\* pending
UnmountEditButton ==
    /\ editButton.mounted
    /\ editButton' = [flushPassiveEffects(editButton) EXCEPT
                         !.mounted = FALSE, !.effectPending = TRUE]
    /\ UNCHANGED <<env, cachedConfig, call, ret, http, envRead, provider>>

RunPassiveEffects ==
    /\ editButton.effectPending
    /\ editButton' = flushPassiveEffects(editButton)
    /\ UNCHANGED <<env, cachedConfig, call, ret, http, envRead, provider>>

\* a click on the button in the document: the listener on it, if any, runs
ClickEditButton ==
    /\ editButton.mounted
    /\ editButton.clicks < MaxClicks
    /\ editButton' =
        [editButton EXCEPT
            !.clicks = @ + 1,
            !.posted = @ \o (IF editButton.listener # Undefined
                             THEN handleClick(editButton.listener, call.out,
                                              editButton.scrollY)
                             ELSE <<>>)]
    /\ UNCHANGED <<env, cachedConfig, call, ret, http, envRead, provider>>

\* the window of the rendered page is scrolled
ScrollWindow ==
    /\ call.fn = "BreasePage"
    /\ ret # NoRet
    /\ call.out # "none"
    /\ \E y \in 0..MaxScrollY :
        /\ y # editButton.scrollY
        /\ editButton' = [editButton EXCEPT !.scrollY = y]
    /\ UNCHANGED <<env, cachedConfig, call, ret, http, envRead, provider>>

NextEdit ==
    \/ RunBreasePage
    \/ MountEditButton
    \/ RenderEditButton
    \/ UnmountEditButton
    \/ RunPassiveEffects
    \/ ClickEditButton
    \/ ScrollWindow

SpecEdit == InitEdit /\ [][NextEdit]_vars

----------------------------------------------------------------------------
(* SpecRawSlug: fetchPage over slugs written with leading, trailing and       *)
(* repeated slashes                                                           *)

MaxParts == 5

\* what a slug is written with: a slash, a locale code, the default locale of
\* one environment, a name of a page
SlugParts == {<<"/">>, c_en, c_eng, c_about}

RawSlugs == {Join(parts, <<>>) : parts \in SeqsUpTo(SlugParts, MaxParts)}

InitRawSlug ==
    /\ env \in {[EnvA EXCEPT !["BREASE_DEFAULT_LOCALE"] = Str(d)] : d \in DefaultLocales}
    /\ cachedConfig = Null
    /\ call \in {Call("fetchPage", <<Str(slug), m>>, out) :
                    slug \in RawSlugs, m \in MetaOnlys, out \in OkOutcome("page")}
    /\ ret = NoRet
    /\ http = <<>>
    /\ envRead = FALSE
    /\ provider = NoProvider
    /\ editButton = NoEditButton

SpecRawSlug == InitRawSlug /\ [][NextSlug]_vars

----------------------------------------------------------------------------
(* Claims about the fetch executor, checked under Spec *)

FetchFns == {"fetchSite", "fetchPage", "fetchAlternateLinks", "fetchAllPages",
             "fetchCollectionById", "fetchEntryById", "fetchNavigation", "fetchRedirects",
             "fetchLocales", "generateSitemap"}

Non2xx(out) == out.k = "response" /\ out.status \notin 200..299
Is2xx(out) == out.k = "response" /\ out.status \in 200..299

SuccessShape(r) ==
    /\ DOMAIN r = {"success", "data", "status"}
    /\ r.success = TRUE

FailureShape(r) ==
    /\ {"success", "error", "status"} \subseteq DOMAIN r
    /\ DOMAIN r \subseteq {"success", "error", "status", "endpoint"}
    /\ r.success = FALSE

\* C1: every value a public fetch function returns, whatever the transport did
\* (2xx, non-2xx, a rejected fetch, a body that does not decode, a parser that
\* throws), has exactly one of the two shapes: success = true with data and
\* status and no error field, or success = false with error and status and no
\* data field.
C1_ResultShape ==
    (call.fn \in FetchFns /\ ret.k = "return")
        => /\ SuccessShape(ret.v) \/ FailureShape(ret.v)
           /\ ~(SuccessShape(ret.v) /\ FailureShape(ret.v))

\* a 2xx answer whose parser threw (json is null) came back as a failure
C1_Witness ==
    /\ call.fn = "fetchSite"
    /\ Is2xx(call.out) /\ call.out.body = JsonBody(Null)
    /\ ret.k = "return" /\ FailureShape(ret.v)

\* C2: a non-2xx response makes the call return (not throw) a failure whose
\* status is the response's status, whose endpoint is the requested URL and
\* whose message embeds that endpoint and the status text; the body is not
\* decoded and the parser is not called.
C2_Non2xxFailure ==
    (call.fn \in FetchFns /\ Non2xx(call.out))
        => /\ ret.k = "return"
           /\ ret.v.success = FALSE
           /\ ret.v.status = call.out.status
           /\ Len(http) = 1
           /\ "endpoint" \in DOMAIN ret.v /\ ret.v.endpoint = http[1].url
           /\ IsInfix(http[1].url, ret.v.error)
           /\ IsInfix(call.out.statusText, ret.v.error)
           /\ ~http[1].jsonCalled
           /\ ~http[1].parserCalled

\* a 404 with a body that would have decoded
C2_Witness ==
    /\ call.fn = "fetchPage"
    /\ Non2xx(call.out) /\ call.out.status = 404 /\ call.out.body.k = "json"
    /\ ret.k = "return" /\ ret.v.status = 404

\* the message of the exception the transport or the decoding raised, as the
\* catch block reports it
RaisedMessage(out) ==
    IF out.k = "reject"
    THEN IF out.e.t = "Error" THEN out.e.message ELSE <<"Unknown error occurred">>
    ELSE <<"Unexpected end of JSON input">>

Raised(out) == out.k = "reject" \/ (Is2xx(out) /\ out.body.k = "invalid")

\* C3: when the HTTP call or the decoding of the body raises an exception the
\* call does not throw: it returns a failure with status 500 whose message
\* contains the exception's message, or 'Unknown error occurred' when the
\* thrown value is not an Error.
C3_ExceptionFailure ==
    (call.fn \in FetchFns /\ Raised(call.out))
        => /\ ret.k = "return"
           /\ ret.v.success = FALSE
           /\ ret.v.status = 500
           /\ IsInfix(RaisedMessage(call.out), ret.v.error)

\* a thrown value that is not an Error
C3_Witness ==
    /\ call.fn = "fetchNavigation"
    /\ call.out = Reject(Thrown_NotAnError)
    /\ ret.k = "return" /\ ret.v.status = 500
    /\ IsInfix(<<"Unknown error occurred">>, ret.v.error)

\* C30 (Spec): in every Result a public fetch function returns, a success has
\* the status of the response, which is a 2xx one; a failure has the status of
\* the response when that is not a 2xx one and 500 otherwise, and holds the
\* requested endpoint; and a 2xx response whose body does not decode or on
\* which the parser throws gives a failure with status 500.
C30_ResultStatus ==
    (call.fn \in FetchFns /\ ret.k = "return") =>
        /\ ret.v.success =>
                /\ Is2xx(call.out)
                /\ ret.v.status = call.out.status
        /\ ~ret.v.success =>
                /\ IF Non2xx(call.out) THEN ret.v.status = call.out.status
                   ELSE ret.v.status = 500
                /\ "endpoint" \in DOMAIN ret.v
                /\ Len(http) = 1
                /\ ret.v.endpoint = http[1].url
        /\ (Is2xx(call.out) /\ (call.out.body.k = "invalid" \/ call.out.body.json = Null)) =>
                /\ ~ret.v.success
                /\ ret.v.status = 500

\* a response with status 299 and the body null, on which the parser throws,
\* came back as a failure with status 500 and the endpoint
C30_Witness ==
    /\ call.fn = "fetchLocales"
    /\ Is2xx(call.out)
    /\ call.out.status = 299
    /\ call.out.body = JsonBody(Null)
    /\ ret.k = "return"
    /\ ~ret.v.success
    /\ ret.v.status = 500
    /\ ret.v.endpoint = http[1].url

\* a decoded body without the `data` envelope, or whose `data` has no key
Malformed(out) ==
    /\ Is2xx(out)
    /\ out.body.k = "json"
    /\ out.body.json.t = "object"
    /\ \/ "data" \notin DOMAIN out.body.json.f
       \/ out.body.json.f.data = Obj(<<>>)

\* C22 (Spec), as stated: a 2xx response whose decoded body lacks the expected
\* key under `data`, or lacks `data` itself, is not reported as an error: the
\* fetch function returns a success Result.
C22_MalformedIsSuccess ==
    (call.fn \in FetchFns /\ Malformed(call.out))
        => /\ ret.k = "return"
           /\ ret.v.success = TRUE

----------------------------------------------------------------------------
(* Claims about the configuration resolver *)

IsMissing(x) == x = Undefined \/ x = Str(<<>>)
MissingSet(e) == {n \in {"BREASE_BASE_URL", "BREASE_TOKEN", "BREASE_ENV",
                         "BREASE_DEFAULT_LOCALE"} : IsMissing(e[n])}
Names(message) == {message[i] : i \in 1..Len(message)} \cap EnvNames

NoNumber(x) == x = Undefined \/ x.v = <<>> \/ ~IsDigit(x.v[1])

\* the text is a decimal number
AllDigits(x) == x # Undefined /\ x.v # <<>> /\ \A i \in DOMAIN x.v : IsDigit(x.v[i])

\* C20 (SpecValidate), as stated: the revalidationTime of the resolved
\* configuration, which getFetchParams passes on as `revalidate`, is always a
\* number: 30 when BREASE_REVALIDATION_TIME is unset, empty or has no number
\* in it, and the number it spells when it is a decimal number.
C20_RevalidationDefault ==
    (call.fn = "validateBreaseConfig" /\ ret.k = "return") =>
        /\ ret.v.revalidationTime.t = "number"
        /\ getFetchParams(ret.v).revalidate.t = "number"
        /\ NoNumber(env["BREASE_REVALIDATION_TIME"]) => ret.v.revalidationTime = Num(30)
        /\ AllDigits(env["BREASE_REVALIDATION_TIME"]) =>
                ret.v.revalidationTime = Num(DigitsValue(env["BREASE_REVALIDATION_TIME"].v, 0))

IsPrefix(p, s) == Len(p) <= Len(s) /\ SubSeq(s, 1, Len(p)) = p

\* the request x was built from configuration c
BuiltFrom(x, c) ==
    /\ x.init.authorization = <<"Bearer ">> \o c.token.v
    /\ x.init.revalidate = c.revalidationTime
    /\ IsPrefix(c.baseUrl.v, x.url)
    /\ Len(x.url) > Len(c.baseUrl.v)
         => IsPrefix(c.baseUrl.v \o <<"/environments/">> \o c.env.v, x.url)

\* a step that is a call of a public fetch function
FetchStep == env' = env /\ call'.fn \in FetchFns

\* a step that is fetchPage of a slug with no locale prefix
DefaultLocaleStep ==
    /\ FetchStep
    /\ call'.fn = "fetchPage"
    /\ call'.args[1] \in {Str(c_about), Str(<<"/">>)}

\* C5 (SpecConfig): once getConfig has succeeded, every later step leaves the
\* cached configuration as it is, whatever the environment has become, and a
\* later call of a fetch function does not read the environment, does not throw
\* and builds its URL and headers from that first configuration.
C5_ConfigMemoized ==
    [][cachedConfig # Null
        => /\ cachedConfig' = cachedConfig
           /\ FetchStep => /\ ~envRead'
                           /\ ret'.k = "return"
                           /\ Len(http') = 1
                           /\ BuiltFrom(http'[1], cachedConfig)
           /\ DefaultLocaleStep
                => IsInfix(<<"locale", "=">> \o cachedConfig.defaultLocale.v \o <<"&">>,
                           http'[1].url)]_vars

\* a fetch that did not read the environment, whose request carries token-a
\* while the environment says token-b and has no base URL
C5_Witness ==
    /\ call.fn = "fetchPage"
    /\ ~envRead
    /\ env["BREASE_TOKEN"] = EnvB["BREASE_TOKEN"]
    /\ env["BREASE_BASE_URL"] = Undefined
    /\ cachedConfig # Null
    /\ cachedConfig.token = EnvA["BREASE_TOKEN"]
    /\ Len(http) = 1 /\ http[1].init.authorization = <<"Bearer ", "token-a">>

\* C18 (SpecConfig): a call of a public fetch function (fetchSite, fetchPage,
\* fetchAlternateLinks, fetchAllPages, fetchCollectionById, fetchEntryById,
\* fetchNavigation, fetchRedirects, fetchLocales, generateSitemap) that resolves
\* the configuration while a required variable is missing throws the
\* configuration error, which names the missing variables, instead of
\* returning a Result; it makes no HTTP request and caches nothing.
C18_ConfigErrorThrown ==
    [][(FetchStep /\ cachedConfig = Null /\ MissingSet(env) # {})
        => /\ envRead'
           /\ ret'.k = "throw"
           /\ ret'.e.name = "Error"
           /\ Names(ret'.e.message) = MissingSet(env)
           /\ http' = <<>>
           /\ cachedConfig' = Null]_vars

\* generateSitemap called with no base URL in the environment and nothing
\* cached: it threw and made no request
C18_Witness ==
    /\ call.fn = "generateSitemap"
    /\ env["BREASE_BASE_URL"] = Undefined
    /\ cachedConfig = Null
    /\ envRead
    /\ ret.k = "throw"
    /\ "BREASE_BASE_URL" \in Names(ret.e.message)
    /\ http = <<>>

\* the first resolution of the configuration has failed: a fetch function has
\* thrown, which it does only out of getConfig, and nothing is cached, which a
\* successful resolution would have left behind
ResolutionFailed == call.fn \in FetchFns /\ ret.k = "throw" /\ cachedConfig = Null

\* C21 (SpecConfig), as stated: once the first resolution of the configuration
\* has failed, every later call of getConfig fails as well (the fetch function
\* that makes it throws), whatever the environment has become in between.
C21_FailsPermanently ==
    [][(ResolutionFailed /\ FetchStep) => ret'.k = "throw"]_vars

\* C23 (SpecAttempt): a call of a public fetch function makes no request and
\* throws when the configuration cannot be resolved; otherwise it makes exactly
\* one request, a GET that carries "Bearer " and the configured token as
\* Authorization and the configured revalidation time, and returns a Result
\* after it, whether the attempt succeeded or failed.
C23_SingleAttempt ==
    (call.fn \in FetchFns) =>
        IF MissingSet(env) # {}
        THEN ret.k = "throw" /\ http = <<>>
        ELSE /\ ret.k = "return"
             /\ SuccessShape(ret.v) \/ FailureShape(ret.v)
             /\ Len(http) = 1
             /\ http[1].init.method = "GET"
             /\ http[1].init.authorization = <<"Bearer ">> \o env["BREASE_TOKEN"].v
             /\ http[1].init.revalidate
                    = Num(DigitsValue(env["BREASE_REVALIDATION_TIME"].v, 0))

\* a request under the second environment that the transport rejected: one
\* request with token-b, and a failure returned
C23_Witness ==
    /\ call.fn = "fetchLocales"
    /\ env = EnvB
    /\ call.out = Reject(Thrown_NetworkError)
    /\ ret.k = "return" /\ FailureShape(ret.v)
    /\ Len(http) = 1
    /\ http[1].init.authorization = <<"Bearer ", "token-b">>
    /\ http[1].init.revalidate = Num(15)

----------------------------------------------------------------------------
(* Claims about the slug and locale of fetchPage, checked under SpecSlug *)

\* the segments that have the shape of a locale code: two lowercase letters,
\* optionally "-" and two uppercase letters
PatternSegments == {c_en, c_de, c_enUS, c_qa}

\* the locales the site serves; the other segments are names of pages
SiteLocales == {c_en, c_de, c_enUS}
PageNames == Segments \ SiteLocales

ExpectedPageUrl(c, locale, segs, metaOnly) ==
    c.baseUrl.v \o <<"/environments/">> \o c.env.v
        \o <<"/page", "?", "locale", "=">> \o locale
        \o <<"&", "slug", "=", "/">> \o Join(segs, <<"/">>)
        \o (IF metaOnly = Bool(TRUE) THEN <<"&", "metaOnly", "=", "true">> ELSE <<>>)

\* fetchPage of the slug s has returned
FetchedPage(s) ==
    /\ call.fn = "fetchPage"
    /\ ret.k = "return"
    /\ call.args[1] = Str(SlugText(s))

----------------------------------------------------------------------------
(* Claims about the static-generation helpers, checked under SpecParams *)

\* the answer is one handleBreaseFetch reports as a failure
FailedAnswer(out) ==
    \/ out.k = "reject"
    \/ Non2xx(out)
    \/ Is2xx(out) /\ out.body.k = "invalid"
    \/ Is2xx(out) /\ out.body.k = "json" /\ out.body.json = Null

\* the array under data[key] of a 2xx answer, <<>> when the key is missing
ListOf(out, key) ==
    IF key \in DOMAIN out.body.json.f.data.f THEN out.body.json.f.data.f[key].a ELSE <<>>

\* the answer carries a list under data[key]
HasList(out, key) ==
    /\ ~FailedAnswer(out)
    /\ key \in DOMAIN out.body.json.f.data.f

\* the locale codes of the locales answer, in order
CodesOf(out) == [i \in DOMAIN ListOf(out, "locales") |-> ListOf(out, "locales")[i].f.code.v]

\* the path segments of each slug value of the inputs, written out
ExpectedSegments(slug) ==
    CASE slug = Str(<<"/">> \o c_about) -> <<Str(c_about)>>
      [] slug = Str(c_blog_post) -> <<Str(<<"b", "l", "o", "g">>), Str(<<"p", "o", "s", "t">>)>>
      [] OTHER -> <<>>

\* one record per page of each locale, locale by locale
RECURSIVE ExpectedParams(_, _)
ExpectedParams(codes, pagesOut) ==
    IF codes = <<>> THEN <<>>
    ELSE [j \in DOMAIN ListOf(pagesOut[codes[1]], "pages") |->
            Obj([locale |-> Str(codes[1]),
                 slug |-> Arr(ExpectedSegments(ListOf(pagesOut[codes[1]], "pages")[j].f.slug))])]
         \o ExpectedParams(Tail(codes), pagesOut)

PageParamsDone == call.fn = "generateBreasePageParams" /\ ret # NoRet

\* every fetch of the call succeeded: the locales answer carries a list and no
\* pages answer of a listed locale is a failure
AllFetchesSucceed ==
    /\ HasList(call.out.locales, "locales")
    /\ \A i \in DOMAIN CodesOf(call.out.locales) :
            ~FailedAnswer(call.out.pages[CodesOf(call.out.locales)[i]])

\* C7 (SpecParams): when the locales fetch and every pages fetch succeed,
\* generateBreasePageParams returns one record per (locale, page) pair, in
\* locale order then page order, each with the locale code and the segments of
\* the page slug; a root, empty or null slug gives a record with an empty slug
\* array.
C7_PageParams ==
    (PageParamsDone /\ AllFetchesSucceed)
        => /\ ret = Return(Arr(ExpectedParams(CodesOf(call.out.locales), call.out.pages)))
           /\ Len(http) = 1 + Len(CodesOf(call.out.locales))

\* locales en, fr with pages "/", "/about" each: four records, the first of
\* them {locale: "en", slug: []}
C7_Witness ==
    /\ PageParamsDone
    /\ HasList(call.out.locales, "locales")
    /\ CodesOf(call.out.locales) = <<c_en, c_fr>>
    /\ \A code \in LocaleCodes :
            call.out.pages[code] =
                DataAnswer(Obj([pages |-> Arr(<<Obj([slug |-> Str(<<"/">>)]),
                                               Obj([slug |-> Str(<<"/">> \o c_about)])>>)]))
    /\ ret.k = "return"
    /\ Len(ret.v.a) = 4
    /\ ret.v.a[1] = Obj([locale |-> Str(c_en), slug |-> Arr(<<>>)])
    /\ ret.v.a[4] = Obj([locale |-> Str(c_fr), slug |-> Arr(<<Str(c_about)>>)])

\* the position, in the listed locales, of the first whose pages answer fails
FirstFailing(codes, pagesOut) ==
    {i \in DOMAIN codes :
        /\ FailedAnswer(pagesOut[codes[i]])
        /\ \A j \in 1..(i - 1) : ~FailedAnswer(pagesOut[codes[j]])}

\* C8 (SpecParams): when the locales fetch fails, or the pages fetch of a
\* locale fails (also after earlier locales gave records), the call returns
\* the empty list, does not throw, and its last request is the failing one: no
\* pages fetch is issued for the locales after it.
C8_AllOrNothing ==
    PageParamsDone =>
        /\ FailedAnswer(call.out.locales)
              => ret = Return(Arr(<<>>)) /\ Len(http) = 1
        /\ HasList(call.out.locales, "locales") =>
              \A i \in FirstFailing(CodesOf(call.out.locales), call.out.pages) :
                  /\ ret = Return(Arr(<<>>))
                  /\ Len(http) = 1 + i
                  /\ \A j \in 1..i :
                        http[1 + j].url =
                            getAllPagesUrl(cachedConfig, CodesOf(call.out.locales)[j])

\* en gave two pages, then the pages fetch of fr failed: nothing is returned
C8_Witness ==
    /\ PageParamsDone
    /\ HasList(call.out.locales, "locales")
    /\ CodesOf(call.out.locales) = <<c_en, c_fr>>
    /\ HasList(call.out.pages[c_en], "pages")
    /\ Len(ListOf(call.out.pages[c_en], "pages")) = 2
    /\ call.out.pages[c_fr] = Response(404, <<"Not Found">>, JsonBody(Obj(<<>>)))
    /\ ret = Return(Arr(<<>>))
    /\ Len(http) = 3

CollectionParamsDone ==
    /\ call.fn \in {"generateBreaseCollectionParams", "generateBreaseCollectionParams_part005"}
    /\ ret # NoRet

\* C9 (SpecParams): when the collection fetch of generateBreaseCollectionParams
\* gives a failure (a non-2xx status, a rejected fetch, a body that does not
\* decode), the call returns the empty list and does not throw, in both
\* revisions that have the function.
C9_CollectionParamsFailClosed ==
    (CollectionParamsDone /\ FailedAnswer(call.out))
        => ret = Return(Arr(<<>>)) /\ Len(http) = 1

\* a rejected fetch gave the empty list
C9_Witness ==
    /\ call.fn = "generateBreaseCollectionParams"
    /\ call.out = Reject(Thrown_NetworkError)
    /\ ret = Return(Arr(<<>>))

----------------------------------------------------------------------------
(* Claims about the metadata generator, checked under SpecMeta *)

MetadataDone == call.fn = "generateBreasePageMetadata" /\ ret # NoRet

\* C10 (SpecMeta): the returned metadata has robots = {index: false, follow:
\* false} when the page's indexing flag is false and has no robots field when
\* the flag is true.
C10_Robots ==
    (MetadataDone /\ call.args[1] \in Pages) =>
        /\ ret.k = "return"
        /\ call.args[1].f.indexing = Bool(FALSE)
              => /\ "robots" \in DOMAIN ret.v.f
                 /\ ret.v.f["robots"] = Obj([index |-> Bool(FALSE), follow |-> Bool(FALSE)])
        /\ call.args[1].f.indexing = Bool(TRUE) => "robots" \notin DOMAIN ret.v.f

\* a page that is not to be indexed got the robots directive
C10_Witness ==
    /\ MetadataDone
    /\ call.args[1] \in Pages
    /\ call.args[1].f.indexing = Bool(FALSE)
    /\ ret.k = "return"
    /\ "robots" \in DOMAIN ret.v.f
    /\ ret.v.f["robots"].f.index = Bool(FALSE)

\* C11 (SpecMeta), as stated: when the page is absent because its fetch failed,
\* generateBreasePageMetadata returns an empty metadata object and does not
\* throw.
C11_EmptyOnAbsentPage ==
    (MetadataDone /\ call.args[1] \in AbsentPages)
        => ret = Return(Obj(<<>>))

\* the field holds a text that is not empty
Present(field) == field.t = "string" /\ field.v # <<>>

\* the first field of the chain that is present, and undefined when none is
RECURSIVE FirstPresent(_)
FirstPresent(chain) ==
    IF chain = <<>> THEN Undefined
    ELSE IF Present(Head(chain)) THEN Head(chain) ELSE FirstPresent(Tail(chain))

\* C26 (SpecMeta): in the returned metadata the title is metaTitle, else the
\* page name, else undefined; the Open Graph title is openGraph.title, else
\* metaTitle, else the name; the Twitter title is twitterCard.title, else
\* metaTitle, else the name; the Open Graph and Twitter descriptions are their
\* own description, else metaDescription, else undefined; and an empty string
\* falls through to the next field of its chain like null.
C26_FallbackChains ==
    (MetadataDone /\ call.args[1] \in Pages) =>
        LET page == call.args[1].f
        IN /\ ret.k = "return"
           /\ ret.v.f["title"] = FirstPresent(<<page.metaTitle, page.name>>)
           /\ ret.v.f["openGraph"].f.title
                = FirstPresent(<<page.openGraph.f.title, page.metaTitle, page.name>>)
           /\ ret.v.f["twitter"].f.title
                = FirstPresent(<<page.twitterCard.f.title, page.metaTitle, page.name>>)
           /\ ret.v.f["openGraph"].f.description
                = FirstPresent(<<page.openGraph.f.description, page.metaDescription>>)
           /\ ret.v.f["twitter"].f.description
                = FirstPresent(<<page.twitterCard.f.description, page.metaDescription>>)

\* a page named Home whose metaTitle, Open Graph title and Twitter title are
\* empty strings and whose descriptions are empty or null got the name as its
\* three titles and no description
C26_Witness ==
    /\ MetadataDone
    /\ call.args[1] \in Pages
    /\ call.args[1].f.name = Str(<<"Home">>)
    /\ call.args[1].f.metaTitle = Str(<<>>)
    /\ call.args[1].f.openGraph.f.title = Str(<<>>)
    /\ call.args[1].f.twitterCard.f.title = Str(<<>>)
    /\ call.args[1].f.metaDescription = Null
    /\ ret.k = "return"
    /\ ret.v.f["title"] = Str(<<"Home">>)
    /\ ret.v.f["openGraph"].f.title = Str(<<"Home">>)
    /\ ret.v.f["twitter"].f.title = Str(<<"Home">>)
    /\ ret.v.f["twitter"].f.description = Undefined

----------------------------------------------------------------------------
(* Claims about the rendering components, checked under SpecRender *)

PageDone == call.fn = "BreasePage" /\ ret # NoRet

\* the sections of the page whose type has a component in sectionMap
MappedSections(page, sectionMap) ==
    SelectSeq(page.f.sections.a, LAMBDA section : section.f.type.v \in DOMAIN sectionMap.f)

\* the node is the output of the section: a section element with the section's
\* id that ends with the section's component over the section's elements
IsOutputOf(node, section, sectionMap) ==
    /\ node.t = "element"
    /\ node.type = "section"
    /\ node.props.id = section.f.page_section_uuid
    /\ node.children # <<>>
    /\ node.children[Len(node.children)].type = sectionMap.f[section.f.type.v]
    /\ node.children[Len(node.children)].props.data = section.f.elements

\* C12 (SpecRender), as stated: BreasePage returns without throwing, and what it
\* renders is the output of exactly the sections whose type has a component in
\* sectionMap, in the order of page.sections, with nothing for the others.
C12_ExactlyMappedSections ==
    PageDone =>
        /\ ret.k = "return"
        /\ LET rendered == RenderedChildren(ret.v.a)
               mapped == MappedSections(call.args[1], call.args[2])
           IN /\ Len(rendered) = Len(mapped)
              /\ \A n \in 1..Len(rendered) : IsOutputOf(rendered[n], mapped[n], call.args[2])

ImageDone == call.fn = "BreaseImage" /\ ret # NoRet /\ Truthy(call.args[1])

\* the variants of the media that stand under one of the size tags
AvailableVariants(breaseImage) ==
    IF Truthy(breaseImage.f.variants)
    THEN {breaseImage.f.variants.f[key] :
            key \in DOMAIN breaseImage.f.variants.f
                        \cap {VARIANT_ORDER[i] : i \in DOMAIN VARIANT_ORDER}}
    ELSE {}

\* C13 (SpecRender): the width BreaseImage gives the image is the width prop when
\* there is one; without it, the greatest width among the variants of the media
\* under the size tags, whether or not a variant is requested; and the width of
\* the media itself only when the media has no such variant.
C13_DisplayWidth ==
    ImageDone =>
        LET available == AvailableVariants(call.args[1])
            width == ret.v.props.width
        IN /\ call.args[2].width # Undefined => width = call.args[2].width
           /\ (call.args[2].width = Undefined /\ available # {}) =>
                /\ \E v \in available : width = v.f.width
                /\ \A v \in available : v.f.width.v <= width.v
           /\ (call.args[2].width = Undefined /\ available = {}) =>
                width = call.args[1].f.width

\* a media with the variants sm of width 100 and lg of width 800, drawn with the
\* variant sm requested and no width prop, got the width 800
C13_Witness ==
    /\ ImageDone
    /\ call.args[2].width = Undefined
    /\ call.args[2].variant = Str(<<"sm">>)
    /\ Truthy(call.args[1].f.variants)
    /\ DOMAIN call.args[1].f.variants.f = {<<"sm">>, <<"lg">>}
    /\ call.args[1].f.variants.f[<<"sm">>].f.width = Num(100)
    /\ call.args[1].f.variants.f[<<"lg">>].f.width = Num(800)
    /\ ret.v.props.width = Num(800)

\* the variant that the call asks for is one of the media's variants
RequestedAvailable(breaseImage, props) ==
    /\ Truthy(props.variant)
    /\ Truthy(breaseImage.f.variants)
    /\ props.variant.v \in DOMAIN breaseImage.f.variants.f
    /\ Truthy(breaseImage.f.variants.f[props.variant.v].f.path)

\* C24 (SpecRender), as stated: the src BreaseImage gives the image is the path
\* of the requested variant when the media has it; otherwise the path of a
\* variant of greatest width among the media's variants under the size tags;
\* and the media's own path only when the media has no such variant.
C24_SourcePath ==
    ImageDone =>
        LET available == AvailableVariants(call.args[1])
            src == ret.v.props.src
        IN IF RequestedAvailable(call.args[1], call.args[2])
           THEN src = call.args[1].f.variants.f[call.args[2].variant.v].f.path
           ELSE IF available # {}
           THEN \E v \in available : /\ src = v.f.path
                                     /\ \A u \in available : u.f.width.v <= v.f.width.v
           ELSE src = call.args[1].f.path

\* the size tags under which the media has a variant with a path, as places of
\* VARIANT_ORDER
ListedTags(breaseImage) ==
    {i \in DOMAIN VARIANT_ORDER :
        /\ VARIANT_ORDER[i] \in DOMAIN breaseImage.f.variants.f
        /\ Truthy(breaseImage.f.variants.f[VARIANT_ORDER[i]].f.path)}

\* the text of a source set: the entries of the tags from the smallest place
\* on, with ', ' between them
RECURSIVE SourceSetText(_, _)
SourceSetText(breaseImage, tags) ==
    IF tags = {} THEN <<>>
    ELSE LET i == CHOOSE j \in tags : \A k \in tags : j <= k
             v == breaseImage.f.variants.f[VARIANT_ORDER[i]]
         IN v.f.path.v \o <<" ">> \o NumberToString(v.f.width.v) \o <<"w">>
                \o (IF tags = {i} THEN <<>>
                    ELSE <<", ">> \o SourceSetText(breaseImage, tags \ {i}))

\* the media has a variants map with at least one key, of whatever name
HasSomeVariant(breaseImage) ==
    Truthy(breaseImage.f.variants) /\ DOMAIN breaseImage.f.variants.f # {}

\* the media has at least two variants
HasMultipleVariants(breaseImage) ==
    Truthy(breaseImage.f.variants) /\ Cardinality(DOMAIN breaseImage.f.variants.f) >= 2

\* the srcSet prop is the entries of the variants under the size tags that have
\* a path, in the order of VARIANT_ORDER, each with its own width
ListsTagsInOrder ==
    ret.v.props.srcSet = Str(SourceSetText(call.args[1], ListedTags(call.args[1])))

\* C25 (SpecRender), as stated: BreaseImage gives the image a srcSet exactly when
\* no variant is requested and the media has several variants, and the srcSet
\* lists the variants under the size tags that have a path, in the order of the
\* tags, each with its own width.
C25_SourceSetOfMultiple ==
    ImageDone =>
        /\ "srcSet" \in DOMAIN ret.v.props
                <=> (~Truthy(call.args[2].variant) /\ HasMultipleVariants(call.args[1]))
        /\ "srcSet" \in DOMAIN ret.v.props => ListsTagsInOrder

\* C25 (SpecRender), amended: BreaseImage gives the image a srcSet exactly when
\* no variant is requested and the variants map of the media has at least one
\* key, a single one and one outside the size tags included; the srcSet lists
\* the variants under the size tags that have a path, in the order of the tags,
\* each with its own width, and is the empty string when there is none.
C25_SourceSet ==
    ImageDone =>
        /\ "srcSet" \in DOMAIN ret.v.props
                <=> (~Truthy(call.args[2].variant) /\ HasSomeVariant(call.args[1]))
        /\ "srcSet" \in DOMAIN ret.v.props => ListsTagsInOrder

\* a media with the variants sm, lg without a path and thumb, drawn with no
\* variant requested, got the srcSet of sm alone
C25_Witness ==
    /\ ImageDone
    /\ ~Truthy(call.args[2].variant)
    /\ HasSomeVariant(call.args[1])
    /\ DOMAIN call.args[1].f.variants.f = {<<"sm">>, <<"lg">>, <<"thumb">>}
    /\ ~Truthy(call.args[1].f.variants.f[<<"lg">>].f.path)
    /\ call.args[1].f.variants.f[<<"sm">>].f.width = Num(100)
    /\ "srcSet" \in DOMAIN ret.v.props
    /\ ret.v.props.srcSet = Str(<<"/media/photo-", "sm", " ", "1", "0", "0", "w">>)

LinkDone == call.fn = "BreaseLink" /\ ret # NoRet

\* C14 (SpecRender), as stated: a link whose linkData.isExternal is true is an
\* `a` element with target "_blank" and rel "noopener noreferrer", whatever
\* linkData.target is; a link whose isExternal is false is a Link element whose
\* href is linkData.value.
C14_ExternalLinks ==
    LinkDone =>
        IF Truthy(call.args[1].f.isExternal)
        THEN /\ ret.v.type = "a"
             /\ ret.v.props.target = Str(<<"_blank">>)
             /\ ret.v.props.rel = Str(<<"noopener noreferrer">>)
        ELSE /\ ret.v.type = Fn(<<"Link">>)
             /\ ret.v.props.href = call.args[1].f.value

HookDone == call.fn \in {"useBrease", "useBreaseContext"} /\ ret # NoRet

\* C17 (SpecRender), as stated: the accessor exported as useBrease throws when it
\* is called outside every provider, and returns the bundle of the nearest
\* enclosing provider when it is called inside one.
C17_ThrowsOutsideProvider ==
    HookDone =>
        IF call.args[1].a = <<>> THEN ret.k = "throw"
        ELSE ret = Return(call.args[1].a[Len(call.args[1].a)])

----------------------------------------------------------------------------
(* Claims about the context provider, checked under SpecContext *)

ContextRunning == call.fn = "BreaseContext" /\ provider.pc # "none"

\* the navigation and collection requests of the configuration
ConfiguredRequests ==
    Requests(call.args[1], "navigations") \cup Requests(call.args[1], "collections")

Issued == provider.pending \cup DOMAIN provider.results

\* C15 (SpecContext), as stated: the navigation and collection requests are all
\* issued without waiting on a completion: once any request of the provider
\* (locales, navigation or collection) has completed, every configured
\* navigation and collection request has already been issued.
C15_IssuedWithoutWaiting ==
    (ContextRunning /\ DOMAIN provider.results # {}) => ConfiguredRequests \subseteq Issued

ContextDone == call.fn = "BreaseContext" /\ ret # NoRet

\* the locales request failed, or its data is the list of locales
LocalesUsable ==
    /\ LocalesRequest \in DOMAIN provider.results
    /\ \/ ~provider.results[LocalesRequest].success
       \/ provider.results[LocalesRequest].data.t = "array"

\* the map holds exactly the keys of the list under which a fetch succeeded,
\* each with the data of a successful fetch under that key
HoldsSucceeded(map, kind) ==
    LET list == ConfigList(call.args[1], kind)
        ok == {i \in DOMAIN list : provider.results[<<kind, i>>].success}
    IN /\ map.t = "object"
       /\ DOMAIN map.f = {list[i].f.key.v : i \in ok}
       /\ \A key \in DOMAIN map.f :
            \E i \in ok : /\ list[i].f.key.v = key
                          /\ map.f[key] = provider.results[<<kind, i>>].data

\* C16 (SpecContext): when BreaseContext has ended, every navigation and
\* collection request it issued has completed, it has returned the provider
\* and not thrown, whichever fetches failed, and in the bundle the navigations
\* map holds exactly the keys whose navigation fetch succeeded and the
\* collections map exactly the keys whose collection fetch succeeded, each with
\* the fetched data (collections is undefined when none are configured).
C16_WaitForAll ==
    (ContextDone /\ LocalesUsable) =>
        /\ provider.pending = {}
        /\ ConfiguredRequests \subseteq DOMAIN provider.results
        /\ ret.k = "return"
        /\ HoldsSucceeded(ret.v.props.brease.f.navigations, "navigations")
        /\ IF Truthy(call.args[1].f.collections)
           THEN HoldsSucceeded(ret.v.props.brease.f.collections, "collections")
           ELSE ret.v.props.brease.f.collections = Undefined

\* two navigations of which the first failed and the second succeeded, and two
\* collections of which the second failed: the bundle holds the second
\* navigation and the first collection
C16_Witness ==
    /\ ContextDone
    /\ LocalesUsable
    /\ Len(ConfigList(call.args[1], "navigations")) = 2
    /\ Len(ConfigList(call.args[1], "collections")) = 2
    /\ ~provider.results[<<"navigations", 1>>].success
    /\ provider.results[<<"navigations", 2>>].success
    /\ provider.results[<<"collections", 1>>].success
    /\ ~provider.results[<<"collections", 2>>].success
    /\ call.args[1].f.navigations.a[1].f.key # call.args[1].f.navigations.a[2].f.key
    /\ ret.k = "return"
    /\ DOMAIN ret.v.props.brease.f.navigations.f = {call.args[1].f.navigations.a[2].f.key.v}
    /\ DOMAIN ret.v.props.brease.f.collections.f = {<<"posts">>}

\* the map that the configured list and the answers to its requests call for:
\* under each key of an entry whose request was answered with a 2xx status,
\* the payload of the answer to the last such entry of the list
AnsweredMap(kind, field) ==
    LET list == ConfigList(call.args[1], kind)
        ok == {i \in DOMAIN list : Is2xx(call.out[kind][i])}
    IN Obj([key \in {list[i].f.key.v : i \in ok} |->
               call.out[kind][CHOOSE i \in ok :
                                /\ list[i].f.key.v = key
                                /\ \A j \in ok : list[j].f.key.v = key => j <= i
                             ].body.json.f.data.f[field]])

\* C29 (SpecContext): the bundle that BreaseContext returns is given by the
\* configuration and the answer to each request alone, in whatever order the
\* requests completed: its navigations and collections maps hold, under each
\* key with a successful fetch, the data of the last entry of the configured
\* list with that key whose fetch succeeded.
C29_OrderIndependent ==
    (ContextDone /\ ret.k = "return") =>
        /\ ret.v.props.brease.f.navigations = AnsweredMap("navigations", "navigation")
        /\ ret.v.props.brease.f.collections
             = IF Truthy(call.args[1].f.collections)
               THEN AnsweredMap("collections", "collection")
               ELSE Undefined

\* two navigations under the key header, both fetched with success, the second
\* completed before the first: the bundle holds the data of the second
C29_Witness ==
    /\ ContextDone
    /\ ret.k = "return"
    /\ Len(ConfigList(call.args[1], "navigations")) = 2
    /\ call.args[1].f.navigations.a[1].f.key = Str(<<"header">>)
    /\ call.args[1].f.navigations.a[2].f.key = Str(<<"header">>)
    /\ Is2xx(call.out.navigations[1])
    /\ Is2xx(call.out.navigations[2])
    /\ Len(http) >= 3
    /\ IsInfix(call.args[1].f.navigations.a[2].f.id.v, http[2].url)
    /\ ~IsInfix(call.args[1].f.navigations.a[2].f.id.v, http[3].url)
    /\ ret.v.props.brease.f.navigations.f[<<"header">>]
         = call.out.navigations[2].body.json.f.data.f["navigation"]
    /\ ret.v.props.brease.f.navigations.f[<<"header">>]
         # call.out.navigations[1].body.json.f.data.f["navigation"]

----------------------------------------------------------------------------
(* Claims about the page URL, checked under SpecUrl *)

\* the position of the first `ch` in s, 0 when there is none
IndexOf(s, ch) ==
    IF \E i \in 1..Len(s) : s[i] = ch THEN CHOOSE i \in 1..Len(s) :
                                             s[i] = ch /\ \A j \in 1..(i - 1) : s[j] # ch
    ELSE 0

Before(s, ch) == IF IndexOf(s, ch) = 0 THEN s ELSE SubSeq(s, 1, IndexOf(s, ch) - 1)
After(s, ch) == IF IndexOf(s, ch) = 0 THEN <<>> ELSE SubSeq(s, IndexOf(s, ch) + 1, Len(s))

RECURSIVE SplitBy(_, _)
SplitBy(s, ch) ==
    IF IndexOf(s, ch) = 0 THEN <<s>> ELSE <<Before(s, ch)>> \o SplitBy(After(s, ch), ch)

\* the decoding of a query name or value: '+' stands for a space
PlusDecoded(s) == [i \in 1..Len(s) |-> IF s[i] = "+" THEN " " ELSE s[i]]

\* new URL(url).searchParams: the fragment is cut at the first '#', the query
\* starts after the first '?', its pairs are separated by '&', and a pair is
\* split at its first '='
SearchParams(url) ==
    LET pairs == SelectSeq(SplitBy(After(Before(url, "#"), "?"), "&"),
                           LAMBDA pair : pair # <<>>)
    IN [i \in DOMAIN pairs |-> [name |-> PlusDecoded(Before(pairs[i], "=")),
                                value |-> PlusDecoded(After(pairs[i], "="))]]

\* searchParams.get(name): the first value under the name, null without one
GetParam(params, name) ==
    IF \E i \in DOMAIN params : params[i].name = name
    THEN Str(params[CHOOSE i \in DOMAIN params :
                        /\ params[i].name = name
                        /\ \A j \in 1..(i - 1) : params[j].name # name].value)
    ELSE Null

UrlDone == call.fn = "getPageUrl" /\ ret # NoRet

\* C19 (SpecUrl), as stated: the query parameters of the URL that getPageUrl
\* builds from a slug and a locale give that locale and that slug back, for
\* every slug, with or without a leading slash and with any characters.
C19_UrlRoundTrip ==
    UrlDone =>
        /\ ret.k = "return"
        /\ GetParam(SearchParams(ret.v.v), <<"locale">>) = call.args[2]
        /\ GetParam(SearchParams(ret.v.v), <<"slug">>) = call.args[1]

----------------------------------------------------------------------------
(* Claims about the section toolbar, checked under SpecEdit *)

\* the node of a rendered section holds the toolbar and the overlay before the
\* section's component
Wrapped(node) ==
    /\ Len(node.children) = 3
    /\ node.children[1].type = Fn(<<"SectionToolbar">>)
    /\ node.children[2].props.className = "brease-preview-overlay"

\* the step is a click on the button
Clicked == editButton'.clicks = editButton.clicks + 1

\* the message of a click on the button of the section with this id
EditMessage(id, scrollY) ==
    Obj([action |-> Str(<<"BreaseEditSection">>),
         data |-> Obj([uuid |-> id, scrollY |-> Num(scrollY)])])

\* C27 (SpecEdit), as stated: BreasePage wraps each section it renders with the
\* toolbar and the overlay exactly when there is a window that is not its own
\* top frame; every click on a mounted edit button posts exactly one message
\* {action: "BreaseEditSection", data: {uuid, scrollY}} whose uuid is the id of
\* the button's section and whose scrollY is the scroll position at the click;
\* and no other step posts a message, so that none is posted after the unmount
\* and none with the old id after the id has changed.
C27_EditMessages ==
    /\ [](PageDone =>
            \A n \in DOMAIN ret.v.a :
                ret.v.a[n].t = "element" => (Wrapped(ret.v.a[n]) <=> call.out = "framed"))
    /\ [][/\ Clicked =>
                editButton'.posted
                    = Append(editButton.posted,
                             EditMessage(editButton.id, editButton.scrollY))
          /\ ~Clicked => editButton'.posted = editButton.posted]_vars

----------------------------------------------------------------------------
(* Claims about the slug of the page URL, checked under SpecRawSlug *)

\* the pieces of the slug between its slashes that are not empty
WrittenSegments(slug) == SelectSeq(SplitBy(slug, "/"), LAMBDA piece : piece # <<>>)

\* the written segments less a first one that has the shape of a locale code or
\* is the default locale
KeptSegments(slug, defaultLocale) ==
    LET written == WrittenSegments(slug)
    IN IF written # <<>> /\ (written[1] \in PatternSegments \/ written[1] = defaultLocale)
       THEN Tail(written) ELSE written

\* C28 (SpecRawSlug): for every slug given to fetchPage, the slug parameter of
\* the URL requested begins with exactly one '/' and has no empty segment: it
\* is '/' and the segments of the input joined by single slashes, less at most
\* one leading locale segment, and is "/" alone when the input is empty, is
\* made of slashes or is only a locale code.
C28_SlugParameter ==
    (call.fn = "fetchPage" /\ ret # NoRet /\ ret.k = "return") =>
        /\ Len(http) = 1
        /\ \E slug \in {GetParam(SearchParams(http[1].url), <<"slug">>)} :
            \E kept \in {KeptSegments(call.args[1].v, cachedConfig.defaultLocale.v)} :
                /\ slug.t = "string"
                /\ slug.v # <<>> /\ slug.v[1] = "/"
                /\ \A i \in 1..(Len(slug.v) - 1) : ~(slug.v[i] = "/" /\ slug.v[i + 1] = "/")
                /\ Len(slug.v) > 1 => slug.v[Len(slug.v)] # "/"
                /\ slug.v = <<"/">> \o Join(kept, <<"/">>)
                /\ Len(WrittenSegments(call.args[1].v)) - Len(kept) \in {0, 1}

\* "en//about/" was fetched with the slug /about
C28_Witness ==
    /\ call.fn = "fetchPage"
    /\ ret # NoRet
    /\ ret.k = "return"
    /\ call.args[1] = Str(c_en \o <<"/", "/">> \o c_about \o <<"/">>)
    /\ GetParam(SearchParams(http[1].url), <<"slug">>) = Str(<<"/">> \o c_about)

====
